---- MODULE Spec2Model ----
(* ContentOS session persistence and archive synchronisation             *)
(* (src/src/App.jsx): the version guard, the persisted cells (useLocal), *)
(* the snapshot normaliser, the archive upsert and the session           *)
(* lifecycle, as a state machine over React renders, handlers, effects.  *)
(*                                                                        *)
(* JavaScript strings are sequences of one-character strings, so that    *)
(* trimming, escaping and tag detection are computed, not assumed.       *)
EXTENDS Integers, Sequences, FiniteSets, TLC

VARIABLES phase, appVersion, storeMode, store, mem, activeArchiveId,
          archiveSyncRef, dirty, effectsPending, showWelcome, nextId, now,
          boot, flight, calls

VARIABLES nstage, nraw, nsnap, nprev, ndrop

mainvars ==
  <<phase, appVersion, storeMode, store, mem, activeArchiveId, archiveSyncRef,
    dirty, effectsPending, showWelcome, nextId, now, boot, flight, calls>>

nvars == <<nstage, nraw, nsnap, nprev, ndrop>>

-----------------------------------------------------------------------------
(* Bounds of the model                                                    *)

MaxRawLen == 3
MaxIds == 5
MaxClock == 4

-----------------------------------------------------------------------------
(* Strings                                                                *)

(* A JavaScript value that may or may not be a string: Str(s) is the      *)
(* string s, Undef a missing field, Other a value of any other type.     *)
Str(s) == [str |-> s]
Undef == [undefined |-> TRUE]
Other == [other |-> TRUE]
NullValue == [null |-> TRUE]

IsStr(v) == "str" \in DOMAIN v

Letters ==
  {"a","b","c","d","e","f","g","h","i","j","k","l","m","n","o","p","q","r",
   "s","t","u","v","w","x","y","z","A","B","C","D","E","F","G","H","I","J",
   "K","L","M","N","O","P","Q","R","S","T","U","V","W","X","Y","Z"}

Whitespace == {" ", "\n", "\t"}

RECURSIVE TrimLeft(_)
TrimLeft(s) ==
  IF s = <<>> THEN <<>>
  ELSE IF Head(s) \in Whitespace THEN TrimLeft(Tail(s)) ELSE s

RECURSIVE TrimRight(_)
TrimRight(s) ==
  IF s = <<>> THEN <<>>
  ELSE IF s[Len(s)] \in Whitespace THEN TrimRight(SubSeq(s, 1, Len(s) - 1))
       ELSE s

Trim(s) == TrimRight(TrimLeft(s))

RECURSIVE Flatten(_)
Flatten(ss) == IF ss = <<>> THEN <<>> ELSE Head(ss) \o Flatten(Tail(ss))

escapeChar(c) ==
  CASE c = "&" -> <<"&","a","m","p",";">>
    [] c = "<" -> <<"&","l","t",";">>
    [] c = ">" -> <<"&","g","t",";">>
    [] c = "\"" -> <<"&","q","u","o","t",";">>
    [] c = "'" -> <<"&","#","3","9",";">>
    [] OTHER -> <<c>>

escapeHtml(text) == Flatten([i \in 1..Len(text) |-> escapeChar(text[i])])

(* HTML_TAG_PATTERN = /<\/?[a-z][\s\S]*>/i *)
HTML_TAG_PATTERN(s) ==
  \E i \in 1..Len(s) :
    /\ s[i] = "<"
    /\ \E j \in (i + 1)..Len(s) :
         /\ \/ s[j] \in Letters /\ j = i + 1
            \/ s[j] \in Letters /\ j = i + 2 /\ s[i + 1] = "/"
         /\ \E k \in (j + 1)..Len(s) : s[k] = ">"

BR == <<"<","b","r",">">>
POpen == <<"<","p",">">>
PClose == <<"<","/","p",">">>

replaceNewlines(s) ==
  Flatten([i \in 1..Len(s) |-> IF s[i] = "\n" THEN BR ELSE <<s[i]>>])

(* Length of the run of newlines starting at position i *)
RECURSIVE NewlineRun(_, _)
NewlineRun(s, i) ==
  IF i > Len(s) \/ s[i] # "\n" THEN 0 ELSE 1 + NewlineRun(s, i + 1)

(* s.split(/\n{2,}/) from position i, cur being the block read so far *)
RECURSIVE SplitBlocks(_, _, _)
SplitBlocks(s, i, cur) ==
  IF i > Len(s) THEN <<cur>>
  ELSE IF NewlineRun(s, i) >= 2
       THEN <<cur>> \o SplitBlocks(s, i + NewlineRun(s, i), <<>>)
       ELSE SplitBlocks(s, i + 1, Append(cur, s[i]))

ensureHtmlContent(value) ==
  IF value = <<>> THEN <<>>
  ELSE IF HTML_TAG_PATTERN(value) THEN value
  ELSE
    LET escaped == escapeHtml(value)
        blocks == SplitBlocks(escaped, 1, <<>>)
        trimmed == [i \in 1..Len(blocks) |-> Trim(blocks[i])]
        paragraphs == SelectSeq(trimmed, LAMBDA b : b # <<>>)
        singleLine == replaceNewlines(escaped)
    IN IF paragraphs = <<>>
       THEN IF singleLine # <<>> THEN POpen \o singleLine \o PClose ELSE <<>>
       ELSE Flatten([i \in 1..Len(paragraphs) |->
              LET withBreaks == replaceNewlines(paragraphs[i])
              IN POpen \o (IF withBreaks # <<>> THEN withBreaks ELSE BR)
                       \o PClose])

-----------------------------------------------------------------------------
(* Snapshot sections                                                      *)

SNAPSHOT_SECTION_DEFINITIONS ==
  << [id |-> "problem", title |-> <<"P","r","o","b","l","e","m">>],
     [id |-> "model", title |-> <<"M","o","d","e","l">>],
     [id |-> "metaphor", title |-> <<"M","e","t","a","p","h","o","r">>],
     [id |-> "caseStat",
      title |-> <<"C","a","s","e"," ","/"," ","S","t","a","t">>],
     [id |-> "actionSteps",
      title |-> <<"A","c","t","i","o","n"," ","S","t","e","p","s">>],
     [id |-> "oneLiner",
      title |-> <<"O","n","e","-","l","i","n","e","r"," ","+"," ",
                  "C","o","n","t","e","x","t">>] >>

NumDefs == Len(SNAPSHOT_SECTION_DEFINITIONS)
CanonicalIds == {SNAPSHOT_SECTION_DEFINITIONS[i].id : i \in 1..NumDefs}

createEmptySnapshotSections ==
  [i \in 1..NumDefs |->
     [id |-> SNAPSHOT_SECTION_DEFINITIONS[i].id, content |-> Str(<<>>)]]

createEmptySnapshotState ==
  [sections |-> [list |-> createEmptySnapshotSections],
   aiDraft |-> Str(<<>>), text |-> Str(<<>>), generatedHtml |-> Undef]

IsList(v) == "list" \in DOMAIN v

(* Position of the first element of seq with the given id, 0 when none   *)
(* (Array.prototype.findIndex / find, shifted to 1-based positions)      *)
findIndex(seq, id) ==
  IF \E i \in 1..Len(seq) : seq[i].id = id
  THEN CHOOSE i \in 1..Len(seq) :
         seq[i].id = id /\ \A j \in 1..(i - 1) : seq[j].id # id
  ELSE 0

(* Position of the last element of seq with the given id, 0 when none:   *)
(* new Map(pairs) keeps the last pair of a repeated key                  *)
findLastIndex(seq, id) ==
  IF \E i \in 1..Len(seq) : seq[i].id = id
  THEN CHOOSE i \in 1..Len(seq) :
         seq[i].id = id /\ \A j \in (i + 1)..Len(seq) : seq[j].id # id
  ELSE 0

(* value.sections mapped to {id, content} with content coerced to a      *)
(* string, then filtered to the canonical ids                            *)
rawSectionsOf(value) ==
  IF IsList(value.sections)
  THEN SelectSeq(
         [i \in 1..Len(value.sections.list) |->
            IF value.sections.list[i] = Other
            THEN [id |-> "", content |-> Str(<<>>)]
            ELSE [id |-> value.sections.list[i].id,
                  content |-> IF IsStr(value.sections.list[i].content)
                              THEN value.sections.list[i].content
                              ELSE Str(<<>>)]],
         LAMBDA section : section.id \in CanonicalIds)
  ELSE <<>>

(* section.id of a null element of value.sections is a TypeError: a      *)
(* primitive element only reads as undefined                              *)
normalizeSnapshotThrows(value) ==
  /\ value \notin {NullValue, Other}
  /\ IsList(value.sections)
  /\ \E i \in 1..Len(value.sections.list) :
       value.sections.list[i] = NullValue

normalizedBaseOf(rawSections) ==
  [i \in 1..NumDefs |->
     [id |-> SNAPSHOT_SECTION_DEFINITIONS[i].id,
      content |->
        IF findLastIndex(rawSections, SNAPSHOT_SECTION_DEFINITIONS[i].id) # 0
        THEN rawSections[findLastIndex(rawSections,
                           SNAPSHOT_SECTION_DEFINITIONS[i].id)].content
        ELSE Str(<<>>)]]

(* orderedSections taking the raw ids last to first *)
orderedSectionsReversed(normalizedBase, orderIds) ==
  [i \in 1..Len(orderIds) |->
     normalizedBase[findIndex(normalizedBase,
                              orderIds[Len(orderIds) + 1 - i])]]
  \o SelectSeq(normalizedBase,
       LAMBDA section : \A i \in 1..Len(orderIds) : orderIds[i] # section.id)

(* orderedSections, given normalizedBase and orderIds *)
orderedSections(normalizedBase, orderIds) ==
  [i \in 1..Len(orderIds) |->
     normalizedBase[findIndex(normalizedBase, orderIds[i])]]
  \o SelectSeq(normalizedBase,
       LAMBDA section : \A i \in 1..Len(orderIds) : orderIds[i] # section.id)

orderedSectionsOf(rawSections) ==
  orderedSections(normalizedBaseOf(rawSections),
                  [i \in 1..Len(rawSections) |-> rawSections[i].id])

(* aiDraftRaw: the explicit aiDraft, else the legacy generatedHtml, else  *)
(* the legacy text when no section was present                            *)
aiDraftRawOf(value, rawSections) ==
  IF IsStr(value.aiDraft) THEN value.aiDraft.str
  ELSE IF IsStr(value.generatedHtml) THEN value.generatedHtml.str
  ELSE IF IsStr(value.text) /\ rawSections = <<>> THEN value.text.str
  ELSE <<>>

aiDraftOf(aiDraftRaw) ==
  IF aiDraftRaw # <<>> /\ ~HTML_TAG_PATTERN(aiDraftRaw)
  THEN ensureHtmlContent(aiDraftRaw)
  ELSE aiDraftRaw

(* {...base, ...value, sections: orderedSections, aiDraft} *)
normalizedFrom(value, rawSections) ==
  [sections |-> [list |-> orderedSectionsOf(rawSections)],
   aiDraft |-> Str(aiDraftOf(aiDraftRawOf(value, rawSections))),
   text |-> IF value.text = Undef THEN Str(<<>>) ELSE value.text,
   generatedHtml |-> value.generatedHtml]

normalizeSnapshot(value) ==
  IF value \in {NullValue, Other} THEN createEmptySnapshotState
  ELSE normalizedFrom(value, rawSectionsOf(value))

H3Open == <<"<","h","3",">">>
H3Close == <<"<","/","h","3",">">>
SectionOpen == <<"<","s","e","c","t","i","o","n",">">>
SectionClose == <<"<","/","s","e","c","t","i","o","n",">">>

sectionToHtml(section) ==
  LET d == findIndex(SNAPSHOT_SECTION_DEFINITIONS, section.id)
      content == Trim(IF IsStr(section.content) THEN section.content.str
                      ELSE <<>>)
  IN IF d = 0 \/ content = <<>> THEN <<>>
     ELSE SectionOpen \o H3Open
          \o escapeHtml(SNAPSHOT_SECTION_DEFINITIONS[d].title) \o H3Close
          \o ensureHtmlContent(content) \o SectionClose

snapshotSectionsToHtml(sections) ==
  IF ~IsList(sections) THEN <<>>
  ELSE Flatten([i \in 1..Len(sections.list) |->
                  sectionToHtml(sections.list[i])])

(* A finalize that keeps a persisted text when the value carries one *)
withPersistedText(normalized) ==
  [normalized EXCEPT
     !.text = IF IsStr(@) /\ @.str # <<>> THEN @
              ELSE Str(snapshotSectionsToHtml(normalized.sections))]

(* {...normalized, text: snapshotSectionsToHtml(normalized.sections)} *)
withSectionsText(normalized) ==
  [normalized EXCEPT !.text = Str(snapshotSectionsToHtml(normalized.sections))]

finalizeSnapshot(value) == withSectionsText(normalizeSnapshot(value))

(* A drop that exchanges the two sections instead of moving one *)
handleDropUpdaterSwap(prev, sourceId, targetId) ==
  LET currentSections ==
        IF IsList(prev.sections) /\ prev.sections.list # <<>>
        THEN prev.sections.list ELSE createEmptySnapshotSections
      fromIndex == findIndex(currentSections, sourceId)
      toIndex == findIndex(currentSections, targetId)
  IN IF fromIndex = 0 \/ toIndex = 0 THEN prev
     ELSE [prev EXCEPT !.sections =
             [list |-> [currentSections EXCEPT
                          ![toIndex] = currentSections[fromIndex],
                          ![fromIndex] = currentSections[toIndex]]]]

(* The updater handleDrop passes to setSnapshot: move the section         *)
(* sourceId to the position of targetId                                  *)
handleDropUpdater(prev, sourceId, targetId) ==
  LET currentSections ==
        IF IsList(prev.sections) /\ prev.sections.list # <<>>
        THEN prev.sections.list ELSE createEmptySnapshotSections
      fromIndex == findIndex(currentSections, sourceId)
      toIndex == findIndex(currentSections, targetId)
      removed == [i \in 1..(Len(currentSections) - 1) |->
                    IF i < fromIndex THEN currentSections[i]
                    ELSE currentSections[i + 1]]
      inserted == [i \in 1..Len(currentSections) |->
                     IF i < toIndex THEN removed[i]
                     ELSE IF i = toIndex THEN currentSections[fromIndex]
                     ELSE removed[i - 1]]
  IN IF fromIndex = 0 \/ toIndex = 0 THEN prev
     ELSE [prev EXCEPT !.sections = [list |-> inserted]]

(* The updater handleSectionChange passes to setSnapshot                 *)
handleSectionChangeUpdater(prev, id, value) ==
  LET current == IF IsList(prev.sections) /\ prev.sections.list # <<>>
                 THEN prev.sections.list ELSE createEmptySnapshotSections
  IN [prev EXCEPT !.sections =
        [list |-> [i \in 1..Len(current) |->
                     IF current[i].id = id
                     THEN [current[i] EXCEPT !.content = Str(value)]
                     ELSE current[i]]]]

(* setSnapshot(updater): the updater is handed setSnapshotBase(prev), the *)
(* finalised previous state, and the cell is set to setSnapshot(nextValue) *)
(* for the nextValue it returns                                           *)
setSnapshotBase(prev) == finalizeSnapshot(prev)

setSnapshot(nextValue) == finalizeSnapshot(nextValue)

RemoveAt(seq, k) ==
  [i \in 1..(Len(seq) - 1) |-> IF i < k THEN seq[i] ELSE seq[i + 1]]

-----------------------------------------------------------------------------
(* Storage keys and stored values                                         *)

APP_VERSIONS == {"1.9.8", "1.9.20"}

VERSION_STORAGE_KEY == "contentos.version"

SETTINGS_STORAGE_KEYS == {"contentos.brand", "contentos.contentTypes"}

TOPIC_ARCHIVE_STORAGE_KEY == "contentos.topics.archive"

LOCAL_STORAGE_KEYS ==
  {"contentos.session", "contentos.locks", "contentos.refdata",
   "contentos.topics", "contentos.snapshot", "contentos.snapshot.chat",
   "contentos.article", "contentos.podcast", "contentos.social.design",
   "contentos.n8n", TOPIC_ARCHIVE_STORAGE_KEY}

(* main.jsx reads this key and nothing in the repository writes it       *)
HIDE_WELCOME_KEY == "contentos.hideWelcome"

(* A key of another application sharing the origin's localStorage        *)
FOREIGN_KEY == "theme"

StorageKeys ==
  LOCAL_STORAGE_KEYS \cup SETTINGS_STORAGE_KEYS
    \cup {VERSION_STORAGE_KEY, HIDE_WELCOME_KEY, FOREIGN_KEY}

(* k.startsWith("contentos.") *)
startsWithContentos(k) == k # FOREIGN_KEY

(* localStorage holds strings: Absent is getItem's null, Plain(s) a       *)
(* string written as it is, Serialize(v) the text JSON.stringify(v)       *)
Absent == [absent |-> TRUE]
Plain(s) == [plain |-> s]
Serialize(v) == [json |-> v]

(* raw ? JSON.parse(raw) : init, with init when JSON.parse throws         *)
ParseOr(raw, init) == IF "json" \in DOMAIN raw THEN raw.json ELSE init

-----------------------------------------------------------------------------
(* Persisted cells (useLocal) and their initial values                    *)

EmptyId == 0
NoTime == 0
Null == [null |-> TRUE]

CellKey ==
  [session |-> "contentos.session",
   locks |-> "contentos.locks",
   refdata |-> "contentos.refdata",
   brand |-> "contentos.brand",
   contentPreferences |-> "contentos.contentTypes",
   topics |-> "contentos.topics",
   snapshot |-> "contentos.snapshot",
   snapshotChatMessages |-> "contentos.snapshot.chat",
   article |-> "contentos.article",
   podcast |-> "contentos.podcast",
   n8n |-> "contentos.n8n",
   social |-> "contentos.social.design",
   archives |-> TOPIC_ARCHIVE_STORAGE_KEY]

Cells == DOMAIN CellKey

createDefaultBrand ==
  [archetype |-> "", tone |-> "", audience |-> "", values |-> "",
   phrases |-> "", style |-> ""]

createDefaultContentPreferences == <<>>

(* The social presets (makeShorts, makePolls, ...) are one opaque value   *)
SocialInitial == [presets |-> "default", questions |-> [list |-> <<>>]]

CellInit ==
  [session |-> [id |-> EmptyId, startedAt |-> NoTime],
   locks |-> [brand |-> FALSE],
   refdata |-> [headers |-> <<>>, rows |-> <<>>],
   brand |-> createDefaultBrand,
   contentPreferences |-> createDefaultContentPreferences,
   topics |-> <<>>,
   snapshot |-> finalizeSnapshot(createEmptySnapshotState),
   snapshotChatMessages |-> <<>>,
   article |-> [content |-> "", savedAt |-> Null],
   podcast |-> [title |-> "", outline |-> ""],
   n8n |-> [webhook |-> ""],
   social |-> SocialInitial,
   archives |-> <<>>]

(* A first render that reads the stored value even when the access fails *)
useLocalInitialReadingThrough(st, mode, cellName) ==
  ParseOr(st[CellKey[cellName]], CellInit[cellName])

(* useLocal's state initialiser: the stored value if it can be read and   *)
(* parsed, else init                                                      *)
useLocalInitial(st, mode, cellName) ==
  IF mode = "denied" THEN CellInit[cellName]
  ELSE ParseOr(st[CellKey[cellName]], CellInit[cellName])

(* useLocal's effect: localStorage.setItem(key, JSON.stringify(state)),   *)
(* dropped when setItem throws                                            *)
writeThrough(st, mode, m, cellNames) ==
  IF mode # "ok" THEN st
  ELSE [k \in StorageKeys |->
          IF \E c \in cellNames : CellKey[c] = k
          THEN Serialize(m[CHOOSE c \in cellNames : CellKey[c] = k])
          ELSE st[k]]

-----------------------------------------------------------------------------
(* The version guard (module top level)                                   *)

(* A guard that removes every contentos.* key, the settings included *)
versionGuardStoreAll(st, mode, version) ==
  IF mode = "denied" THEN st
  ELSE IF st[VERSION_STORAGE_KEY] = Plain(version) THEN st
  ELSE [k \in StorageKeys |->
          IF k = VERSION_STORAGE_KEY
          THEN (IF mode = "ok" THEN Plain(version) ELSE st[k])
          ELSE IF startsWithContentos(k) THEN Absent
          ELSE st[k]]

(* The store after the guard's removeItem loop and setItem                *)
versionGuardStore(st, mode, version) ==
  IF mode = "denied" THEN st
  ELSE IF st[VERSION_STORAGE_KEY] = Plain(version) THEN st
  ELSE [k \in StorageKeys |->
          IF k \in LOCAL_STORAGE_KEYS THEN Absent
          ELSE IF k = VERSION_STORAGE_KEY /\ mode = "ok" THEN Plain(version)
          ELSE st[k]]

(* A guard that reloads whether or not setItem stored the marker *)
versionGuardReloadsUnwritten(st, mode, version) ==
  /\ mode # "denied"
  /\ st[VERSION_STORAGE_KEY] # Plain(version)
  /\ st[VERSION_STORAGE_KEY] # Absent
  /\ st[VERSION_STORAGE_KEY] # Plain("")

(* A guard that reloads after every rewrite of the marker *)
versionGuardReloadsAlways(st, mode, version) ==
  /\ mode = "ok"
  /\ st[VERSION_STORAGE_KEY] # Plain(version)

(* window.location.reload() is reached when the marker differed, setItem  *)
(* did not throw and the stored marker was a non-empty string             *)
versionGuardReloads(st, mode, version) ==
  /\ mode = "ok"
  /\ st[VERSION_STORAGE_KEY] # Plain(version)
  /\ st[VERSION_STORAGE_KEY] # Absent
  /\ st[VERSION_STORAGE_KEY] # Plain("")

-----------------------------------------------------------------------------
(* The archive                                                            *)

(* The bundle persistSessionToArchive and the sync effect build from the  *)
(* cells of one render; snapshot is the finalizeSnapshot memo             *)
Bundle(m) ==
  [brand |-> m.brand,
   contentPreferences |-> m.contentPreferences,
   topics |-> m.topics,
   snapshot |-> finalizeSnapshot(m.snapshot),
   snapshotChatMessages |-> m.snapshotChatMessages,
   article |-> m.article,
   podcast |-> m.podcast,
   social |-> m.social,
   refdata |-> m.refdata,
   n8n |-> m.n8n,
   locks |-> m.locks]

UntitledTopic ==
  <<"U","n","t","i","t","l","e","d"," ","t","o","p","i","c">>

(* hasTopic without the trim *)
hasTopicUntrimmed(topicList) ==
  \E i \in 1..Len(topicList) : topicList[i].name # <<>>

(* A check that takes every bundle as having a topic *)
hasTopicAlways(topicList) == TRUE

(* topicList.some(topic => typeof topic?.name === "string" &&            *)
(*                         topic.name.trim().length)                      *)
hasTopic(topicList) ==
  \E i \in 1..Len(topicList) : Trim(topicList[i].name) # <<>>

(* topicList[0]?.name?.trim() || "Untitled topic" *)
titleOf(topicList) ==
  IF topicList # <<>> /\ Trim(topicList[1].name) # <<>>
  THEN Trim(topicList[1].name)
  ELSE UntitledTopic

(* A lookup that finds an entry by its id only *)
archiveIndexByIdOnly(prev, entryId, sessionId) ==
  IF entryId # EmptyId /\ \E i \in 1..Len(prev) : prev[i].id = entryId
  THEN CHOOSE i \in 1..Len(prev) :
         prev[i].id = entryId /\ \A j \in 1..(i - 1) : prev[j].id # entryId
  ELSE 0

(* prev.findIndex(item => entryId ? item.id === entryId                   *)
(*                                : item.sessionId === session.id)        *)
archiveIndex(prev, entryId, sessionId) ==
  IF \E i \in 1..Len(prev) :
       IF entryId # EmptyId THEN prev[i].id = entryId
       ELSE prev[i].sessionId = sessionId
  THEN CHOOSE i \in 1..Len(prev) :
         /\ IF entryId # EmptyId THEN prev[i].id = entryId
            ELSE prev[i].sessionId = sessionId
         /\ \A j \in 1..(i - 1) :
              IF entryId # EmptyId THEN prev[j].id # entryId
              ELSE prev[j].sessionId # sessionId
  ELSE 0

(* The updater without its byte-equality early return *)
setArchivesUpdaterAlwaysWrites(prev, index, baseEntry) ==
  IF index > 0
  THEN [archives |-> [prev EXCEPT ![index] = baseEntry],
        changed |-> TRUE, ret |-> baseEntry]
  ELSE [archives |-> <<baseEntry>> \o prev, changed |-> TRUE,
        ret |-> baseEntry]

(* The setArchives updater of persistSessionToArchive applied to prev,  *)
(* index being the position it found and baseEntry the entry it built.   *)
(* archives: the next list; changed: whether it is a new list; ret: the   *)
(* entry kept in createdEntry                                             *)
setArchivesUpdater(prev, index, baseEntry) ==
  IF index > 0
  THEN IF Serialize(prev[index].data) = Serialize(baseEntry.data)
          /\ prev[index].title = baseEntry.title
       THEN [archives |-> prev, changed |-> FALSE, ret |-> prev[index]]
       ELSE [archives |-> [prev EXCEPT ![index] = baseEntry],
             changed |-> TRUE, ret |-> baseEntry]
  ELSE [archives |-> <<baseEntry>> \o prev, changed |-> TRUE,
        ret |-> baseEntry]

(* The entry the updater builds: fresh is the value uuid() returns when   *)
(* it is called, t the clock                                              *)
baseEntryOf(prev, index, sess, archiveData, entryId, fresh, t) ==
  [id |-> IF entryId # EmptyId THEN entryId
          ELSE IF index > 0 THEN prev[index].id ELSE fresh,
   sessionId |-> sess.id,
   startedAt |-> sess.startedAt,
   savedAt |-> t,
   title |-> titleOf(archiveData.topics),
   data |-> archiveData]

upsertAt(prev, index, sess, archiveData, entryId, fresh, t) ==
  [upd |-> setArchivesUpdater(prev, index,
             baseEntryOf(prev, index, sess, archiveData, entryId, fresh, t)),
   usedUuid |-> (index = 0 /\ entryId = EmptyId)]

(* persistSessionToArchive({entryId}) called from a render whose session  *)
(* is sess, archiveData being dataOverride or that render's bundle:       *)
(* upd.archives is the archive list after the call's setArchives, applied *)
(* to prev; upd.ret is Null on an early return; usedUuid tells whether    *)
(* uuid() was called                                                      *)
persistSessionToArchive(prev, sess, archiveData, entryId, fresh, t) ==
  IF sess.id = EmptyId \/ ~hasTopic(archiveData.topics)
  THEN [upd |-> [archives |-> prev, changed |-> FALSE, ret |-> Null],
        usedUuid |-> FALSE]
  ELSE upsertAt(prev, archiveIndex(prev, entryId, sess.id), sess, archiveData,
                entryId, fresh, t)

-----------------------------------------------------------------------------
(* State                                                                  *)

(* phase: "load" a page load is about to run the module, "reload" the    *)
(*   guard called location.reload(), "mount" the guard is done and the   *)
(*   app is about to mount, "run" the app is mounted                      *)
(* store: localStorage; storeMode: "ok", "quota" (setItem throws) or     *)
(*   "denied" (every access throws)                                       *)
(* mem: the state of the persisted cells in the committed render          *)
(* dirty: the cells whose write-through effect is pending                 *)
(* boot: the store and the build as the last page load found them         *)
(* flight: the handler suspended at an await, with its closure            *)
(* calls: the ids returned by the ensureSessionId calls of the last       *)
(*   settings save, and the session_start notifications it caused         *)

(* showWelcome: the welcome overlay is displayed                          *)

NoFlight == [kind |-> "none"]
NoCalls == [ids |-> <<>>, starts |-> 0]
NoBoot == [stored |-> Absent, pre |-> [k \in StorageKeys |-> Absent],
           version |-> "", mode |-> "ok"]

StoreModes == {"ok", "quota", "denied"}
MainInit ==
  /\ phase = "load"
  /\ appVersion = "1.9.8"
  /\ storeMode = "ok"
  /\ store = [k \in StorageKeys |-> Absent]
  /\ mem = CellInit
  /\ activeArchiveId = EmptyId
  /\ archiveSyncRef = Null
  /\ dirty = {}
  /\ effectsPending = FALSE
  /\ showWelcome = FALSE
  /\ nextId = 1
  /\ now = 1
  /\ boot = NoBoot
  /\ flight = NoFlight
  /\ calls = NoCalls

-----------------------------------------------------------------------------
(* Page load: the version guard, then the first render                    *)

VersionGuard ==
  /\ phase = "load"
  /\ boot' = [stored |-> store[VERSION_STORAGE_KEY], pre |-> store,
              version |-> appVersion, mode |-> storeMode]
  /\ store' = versionGuardStore(store, storeMode, appVersion)
  /\ phase' = IF versionGuardReloads(store, storeMode, appVersion)
              THEN "reload" ELSE "mount"
  /\ UNCHANGED <<appVersion, storeMode, mem, activeArchiveId, archiveSyncRef,
                 dirty, effectsPending, showWelcome, nextId, now, flight,
                 calls>>
  /\ UNCHANGED nvars

(* window.location.reload(): the page loads again over the same store     *)
Reload ==
  /\ phase = "reload"
  /\ phase' = "load"
  /\ UNCHANGED <<appVersion, storeMode, store, mem, activeArchiveId,
                 archiveSyncRef, dirty, effectsPending, showWelcome, nextId,
                 now, boot, flight, calls>>
  /\ UNCHANGED nvars

(* ContentOSApp's first render: every useLocal reads its key once; the    *)
(* effects of all cells are pending                                       *)
Mount ==
  /\ phase = "mount"
  /\ phase' = "run"
  /\ mem' = [c \in Cells |-> useLocalInitial(store, storeMode, c)]
  /\ activeArchiveId' = EmptyId
  /\ archiveSyncRef' = Null
  /\ dirty' = Cells
  /\ effectsPending' = TRUE
  /\ showWelcome' = FALSE
  /\ UNCHANGED <<appVersion, storeMode, store, nextId, now, boot, flight,
                 calls>>
  /\ UNCHANGED nvars

(* The page is closed or reloaded by the user; a new build may have been  *)
(* deployed and the browser's storage policy may have changed meanwhile   *)
Close(version, mode) ==
  /\ phase = "run"
  /\ phase' = "load"
  /\ appVersion' = version
  /\ storeMode' = mode
  /\ mem' = CellInit
  /\ activeArchiveId' = EmptyId
  /\ archiveSyncRef' = Null
  /\ dirty' = {}
  /\ effectsPending' = FALSE
  /\ showWelcome' = FALSE
  /\ flight' = NoFlight
  /\ calls' = NoCalls
  /\ UNCHANGED <<store, nextId, now, boot>>
  /\ UNCHANGED nvars

-----------------------------------------------------------------------------
(* The effects of one committed render, in declaration order              *)

(* A topics effect that leaves the list as it is *)
truncatedTopicsKeepingAll(topics) == topics

(* The topics effect: if (topics.length > 1) setTopics([topics[0]])       *)
truncatedTopics(topics) ==
  IF Len(topics) > 1 THEN <<topics[1]>> ELSE topics

(* A sync effect without the comparison with the held reference *)
syncEffectUnguarded(archives, sess, archivePayload, active, ref, fresh, t) ==
  IF \/ active = EmptyId
     \/ ~\E i \in 1..Len(archives) : archives[i].id = active
  THEN [upd |-> [archives |-> archives, changed |-> FALSE, ret |-> Null],
        ref |-> ref, called |-> FALSE]
  ELSE [upd |-> persistSessionToArchive(archives, sess, archivePayload,
                                        active, fresh, t).upd,
        ref |-> Serialize(archivePayload), called |-> TRUE]

(* The archive sync effect of a render whose bundle is archivePayload:   *)
(* called tells whether it reached persistSessionToArchive                *)
syncEffect(archives, sess, archivePayload, active, ref, fresh, t) ==
  IF \/ active = EmptyId
     \/ ~\E i \in 1..Len(archives) : archives[i].id = active
     \/ ref = Serialize(archivePayload)
  THEN [upd |-> [archives |-> archives, changed |-> FALSE, ret |-> Null],
        ref |-> ref, called |-> FALSE]
  ELSE [upd |-> persistSessionToArchive(archives, sess, archivePayload,
                                        active, fresh, t).upd,
        ref |-> Serialize(archivePayload), called |-> TRUE]

RunEffects ==
  /\ phase = "run"
  /\ effectsPending
  /\ \E sync \in {syncEffect(mem.archives, mem.session, Bundle(mem),
                              activeArchiveId, archiveSyncRef, nextId, now)} :
       /\ sync.upd.changed => now < MaxClock
       /\ store' = writeThrough(store, storeMode, mem, dirty)
       /\ showWelcome' = IF "session" \in dirty /\ mem.session.id = EmptyId
                         THEN TRUE ELSE showWelcome
       /\ mem' = [mem EXCEPT
                    !.topics = truncatedTopics(@),
                    !.archives = sync.upd.archives]
       /\ archiveSyncRef' = sync.ref
       /\ dirty' = (IF truncatedTopics(mem.topics) # mem.topics
                     THEN {"topics"} ELSE {})
                     \cup (IF sync.upd.changed THEN {"archives"} ELSE {})
       /\ effectsPending' = (dirty' # {})
       /\ now' = IF sync.upd.changed THEN now + 1 ELSE now
  /\ UNCHANGED <<phase, appVersion, storeMode, activeArchiveId, nextId, boot,
                 flight, calls>>
  /\ UNCHANGED nvars

-----------------------------------------------------------------------------
(* Session lifecycle                                                      *)

Idle == phase = "run" /\ ~effectsPending

(* A handler other than the settings save ran since its first            *)
(* ensureSessionId call                                                   *)
Disturbed(c) == IF c.ids = <<>> THEN c ELSE [c EXCEPT !.clean = FALSE]

(* startNewSession after its persistSessionToArchive() call returned p:  *)
(* the new id and start time, the session and the brand lock set          *)
startedSession(m, p, fresh, t) ==
  [mem |-> [m EXCEPT !.archives = p.upd.archives,
                     !.session = [id |-> IF p.usedUuid THEN fresh + 1
                                         ELSE fresh,
                                  startedAt |-> t],
                     !.locks = [brand |-> FALSE]],
   changed |-> {"session", "locks"}
                 \cup (IF p.upd.changed THEN {"archives"} ELSE {}),
   id |-> IF p.usedUuid THEN fresh + 1 ELSE fresh,
   nextId |-> IF p.usedUuid THEN fresh + 2 ELSE fresh + 1,
   started |-> TRUE]

(* startNewSession without its persistSessionToArchive() call *)
startNewSessionWithoutUpsert(m, sess, bundle, fresh, t) ==
  startedSession(m,
    [upd |-> [archives |-> m.archives, changed |-> FALSE, ret |-> Null],
     usedUuid |-> FALSE],
    fresh, t)

(* startNewSession called from a render whose session and bundle are     *)
(* sess and bundle, its state updates queued after those that produced m *)
startNewSession(m, sess, bundle, fresh, t) ==
  startedSession(m,
    persistSessionToArchive(m.archives, sess, bundle, EmptyId, fresh, t),
    fresh, t)

(* ensureSessionId called from a render whose session is sess            *)
ensureSessionId(m, sess, bundle, fresh, t) ==
  IF sess.id # EmptyId
  THEN [mem |-> m, changed |-> {}, id |-> sess.id, nextId |-> fresh,
        started |-> FALSE]
  ELSE startNewSession(m, sess, bundle, fresh, t)

(* The welcome overlay's "Start" button *)
WelcomeStart ==
  /\ Idle
  /\ showWelcome
  /\ nextId + 1 <= MaxIds
  /\ now < MaxClock
  /\ \E s \in {startNewSession(mem, mem.session, Bundle(mem), nextId, now)} :
       /\ mem' = s.mem
       /\ dirty' = s.changed
       /\ nextId' = s.nextId
  /\ activeArchiveId' = EmptyId
  /\ archiveSyncRef' = Null
  /\ showWelcome' = FALSE
  /\ effectsPending' = TRUE
  /\ now' = now + 1
  /\ calls' = Disturbed(calls)
  /\ UNCHANGED <<phase, appVersion, storeMode, store, boot, flight>>
  /\ UNCHANGED nvars

(* The welcome overlay's "Keep exploring" button *)
KeepExploring ==
  /\ Idle
  /\ showWelcome
  /\ showWelcome' = FALSE
  /\ UNCHANGED <<phase, appVersion, storeMode, store, mem, activeArchiveId,
                 archiveSyncRef, dirty, effectsPending, nextId, now, boot,
                 flight, calls>>
  /\ UNCHANGED nvars

(* The cells resetSession sets, in the order it sets them *)
ResetSessionCells ==
  {"session", "locks", "topics", "snapshot", "snapshotChatMessages",
   "article", "podcast", "social", "n8n", "refdata"}

(* resetSession's setSocial argument: the presets without questions      *)
SocialAfterReset == [presets |-> "default", questions |-> Undef]

(* resetSession's removal loop over the keys of localStorage             *)
resetSessionStore(st, mode) ==
  IF mode = "denied" THEN st
  ELSE [k \in StorageKeys |->
          IF startsWithContentos(k) /\ k \notin SETTINGS_STORAGE_KEYS
          THEN Absent ELSE st[k]]

(* resetSession's state updates *)
resetSessionMem(m) ==
  [m EXCEPT !.session = [id |-> EmptyId, startedAt |-> NoTime],
            !.locks = [brand |-> FALSE],
            !.topics = <<>>,
            !.snapshot = finalizeSnapshot(createEmptySnapshotState),
            !.snapshotChatMessages = <<>>,
            !.article = [content |-> "", savedAt |-> Null],
            !.podcast = [title |-> "", outline |-> ""],
            !.social = SocialAfterReset,
            !.n8n = [webhook |-> ""],
            !.refdata = [headers |-> <<>>, rows |-> <<>>]]

(* "Yes, start fresh": resetSession({showWelcomeOverlay: false}) and then *)
(* startNewSession, both from the render the button belongs to            *)
StartFresh ==
  /\ Idle
  /\ nextId + 1 <= MaxIds
  /\ now < MaxClock
  /\ \E s \in {startNewSession(resetSessionMem(mem), mem.session,
                                Bundle(mem), nextId, now)} :
       /\ mem' = s.mem
       /\ dirty' = ResetSessionCells \cup s.changed
       /\ nextId' = s.nextId
  /\ store' = resetSessionStore(store, storeMode)
  /\ activeArchiveId' = EmptyId
  /\ archiveSyncRef' = Null
  /\ showWelcome' = FALSE
  /\ effectsPending' = TRUE
  /\ now' = now + 1
  /\ calls' = Disturbed(calls)
  /\ UNCHANGED <<phase, appVersion, storeMode, boot, flight>>
  /\ UNCHANGED nvars

-----------------------------------------------------------------------------
(* Topics                                                                 *)

(* TopicsPage.handleNext up to its await: validation, ensureSessionId,    *)
(* the topics_continue_click request. editing is the position of the      *)
(* topic being edited, 0 when none                                        *)
TopicsNextBegin(tempTopic, editing) ==
  /\ Idle
  /\ flight = NoFlight
  /\ editing \in 0..Len(mem.topics)
  /\ LET trimmedTopic == Trim(tempTopic)
         isEditing == editing # 0
         pendingTopic == IF ~isEditing /\ trimmedTopic # <<>>
                         THEN [name |-> trimmedTopic] ELSE Null
         topicsPayload ==
           IF isEditing
           THEN [mem.topics EXCEPT ![editing] = [name |-> trimmedTopic]]
           ELSE IF trimmedTopic # <<>> THEN Append(mem.topics, pendingTopic)
           ELSE mem.topics
     IN \E e \in {ensureSessionId(mem, mem.session, Bundle(mem), nextId, now)} :
        /\ isEditing => trimmedTopic # <<>>
        /\ (~isEditing /\ trimmedTopic # <<>>) => Len(mem.topics) < 1
        /\ topicsPayload # <<>>
        /\ e.started => nextId <= MaxIds /\ now < MaxClock
        /\ mem' = e.mem
        /\ dirty' = e.changed
        /\ effectsPending' = e.started
        /\ nextId' = e.nextId
        /\ now' = IF e.started THEN now + 1 ELSE now
        /\ activeArchiveId' = IF e.started THEN EmptyId ELSE activeArchiveId
        /\ archiveSyncRef' = IF e.started THEN Null ELSE archiveSyncRef
        /\ flight' = [kind |-> "topics", pendingTopic |-> pendingTopic,
                      topicsPayload |-> topicsPayload,
                      isEditing |-> isEditing]
  /\ calls' = Disturbed(calls)
  /\ UNCHANGED <<phase, appVersion, storeMode, store, showWelcome, boot>>
  /\ UNCHANGED nvars

(* handleNext after the request settled: nextFromTopics *)
TopicsNextContinue ==
  /\ Idle
  /\ flight.kind = "topics"
  /\ mem' = IF flight.isEditing
            THEN [mem EXCEPT !.topics = flight.topicsPayload]
            ELSE IF flight.pendingTopic # Null
            THEN [mem EXCEPT !.topics = <<flight.pendingTopic>>]
            ELSE mem
  /\ dirty' = IF flight.isEditing \/ flight.pendingTopic # Null
              THEN {"topics"} ELSE {}
  /\ effectsPending' = (dirty' # {})
  /\ flight' = NoFlight
  /\ calls' = Disturbed(calls)
  /\ UNCHANGED <<phase, appVersion, storeMode, store, activeArchiveId,
                 archiveSyncRef, showWelcome, nextId, now, boot>>
  /\ UNCHANGED nvars

removeTopic(i) ==
  /\ Idle
  /\ i \in 1..Len(mem.topics)
  /\ mem' = [mem EXCEPT !.topics = RemoveAt(mem.topics, i)]
  /\ dirty' = {"topics"}
  /\ effectsPending' = TRUE
  /\ calls' = Disturbed(calls)
  /\ UNCHANGED <<phase, appVersion, storeMode, store, activeArchiveId,
                 archiveSyncRef, showWelcome, nextId, now, boot, flight>>
  /\ UNCHANGED nvars

-----------------------------------------------------------------------------
(* Snapshot editing                                                       *)

(* SnapshotPage.handleSectionChange through setSnapshot *)
handleSectionChange(id, value) ==
  /\ Idle
  /\ mem' = [mem EXCEPT !.snapshot =
               setSnapshot(
                 handleSectionChangeUpdater(setSnapshotBase(mem.snapshot),
                                            id, value))]
  /\ dirty' = {"snapshot"}
  /\ effectsPending' = TRUE
  /\ calls' = Disturbed(calls)
  /\ UNCHANGED <<phase, appVersion, storeMode, store, activeArchiveId,
                 archiveSyncRef, showWelcome, nextId, now, boot, flight>>
  /\ UNCHANGED nvars

-----------------------------------------------------------------------------
(* Snapshot generation                                                    *)

Quote == "\""

(* extractSnapshotText(raw) for a response body that is plain text, which *)
(* JSON.parse rejects, or one JSON string: extracted || raw               *)
extractSnapshotText(raw) ==
  IF /\ Len(raw) > 2
     /\ raw[1] = Quote
     /\ raw[Len(raw)] = Quote
     /\ \A i \in 2..(Len(raw) - 1) : raw[i] \notin {Quote, "\\"}
  THEN SubSeq(raw, 2, Len(raw) - 1)
  ELSE raw

(* The updater requestSnapshot passes to setSnapshot *)
requestSnapshotUpdater(prev, rawText) ==
  [prev EXCEPT !.aiDraft =
     Str(IF Trim(extractSnapshotText(rawText)) # <<>>
         THEN ensureHtmlContent(Trim(extractSnapshotText(rawText)))
         ELSE <<>>)]

(* A response that is applied only to the session it was requested for *)
snapshotArrivedIfCurrent(m, requestedFor, rawText) ==
  IF m.session.id # requestedFor THEN m
  ELSE [m EXCEPT !.snapshot =
          setSnapshot(requestSnapshotUpdater(setSnapshotBase(@), rawText))]

(* The cells after requestSnapshot's response text arrived; requestedFor  *)
(* is the session id the request was sent with, which the continuation    *)
(* does not look at                                                       *)
snapshotArrived(m, requestedFor, rawText) ==
  [m EXCEPT !.snapshot =
     setSnapshot(requestSnapshotUpdater(setSnapshotBase(@), rawText))]

(* SnapshotPage.requestSnapshot up to its await: ensureSessionId and the  *)
(* snapshot_generate_request                                              *)
requestSnapshotBegin ==
  /\ Idle
  /\ flight = NoFlight
  /\ \E e \in {ensureSessionId(mem, mem.session, Bundle(mem), nextId, now)} :
       /\ e.started => nextId <= MaxIds /\ now < MaxClock
       /\ mem' = e.mem
       /\ dirty' = e.changed
       /\ effectsPending' = e.started
       /\ nextId' = e.nextId
       /\ now' = IF e.started THEN now + 1 ELSE now
       /\ activeArchiveId' = IF e.started THEN EmptyId ELSE activeArchiveId
       /\ archiveSyncRef' = IF e.started THEN Null ELSE archiveSyncRef
       /\ flight' = [kind |-> "snapshot", sessionId |-> e.id]
  /\ calls' = Disturbed(calls)
  /\ UNCHANGED <<phase, appVersion, storeMode, store, showWelcome, boot>>
  /\ UNCHANGED nvars

(* requestSnapshot after res.text() settled *)
requestSnapshotArrive(rawText) ==
  /\ Idle
  /\ flight.kind = "snapshot"
  /\ mem' = snapshotArrived(mem, flight.sessionId, rawText)
  /\ dirty' = {"snapshot"}
  /\ effectsPending' = TRUE
  /\ flight' = NoFlight
  /\ calls' = Disturbed(calls)
  /\ UNCHANGED <<phase, appVersion, storeMode, store, activeArchiveId,
                 archiveSyncRef, showWelcome, nextId, now, boot>>
  /\ UNCHANGED nvars

(* requestSnapshot when fetch rejects or the status is not ok *)
requestSnapshotFail ==
  /\ Idle
  /\ flight.kind = "snapshot"
  /\ flight' = NoFlight
  /\ calls' = Disturbed(calls)
  /\ UNCHANGED <<phase, appVersion, storeMode, store, mem, activeArchiveId,
                 archiveSyncRef, dirty, effectsPending, showWelcome, nextId,
                 now, boot>>
  /\ UNCHANGED nvars

-----------------------------------------------------------------------------
(* Settings                                                               *)

BrandBold == [createDefaultBrand EXCEPT !.archetype = "sage", !.tone = "bold"]

(* SettingsPage.handleSave up to its first await: the brand has changed,  *)
(* ensureSessionId, the brand_save_click request                          *)
SettingsSaveBegin(draftBrand) ==
  /\ Idle
  /\ flight = NoFlight
  /\ draftBrand # mem.brand
  /\ \E e \in {ensureSessionId(mem, mem.session, Bundle(mem), nextId, now)} :
        /\ e.started => nextId <= MaxIds /\ now < MaxClock
        /\ mem' = e.mem
        /\ dirty' = e.changed
        /\ effectsPending' = e.started
        /\ nextId' = e.nextId
        /\ now' = IF e.started THEN now + 1 ELSE now
        /\ activeArchiveId' = IF e.started THEN EmptyId ELSE activeArchiveId
        /\ archiveSyncRef' = IF e.started THEN Null ELSE archiveSyncRef
        /\ calls' = [ids |-> <<e.id>>,
                     starts |-> IF e.started THEN 1 ELSE 0,
                     fromEmpty |-> (mem.session.id = EmptyId),
                     clean |-> TRUE]
        /\ flight' = [kind |-> "save1", session |-> mem.session,
                      bundle |-> Bundle(mem), brand |-> draftBrand]
  /\ UNCHANGED <<phase, appVersion, storeMode, store, showWelcome, boot>>
  /\ UNCHANGED nvars

(* handleSave after the first request settled: onSave = handleSaveSettings *)
(* of the same render calls saveBrand, which validates the brand, calls   *)
(* ensureSessionId of that render and posts brand_profile                 *)
SettingsSaveBrand ==
  /\ Idle
  /\ flight.kind = "save1"
  /\ flight.brand.archetype # "" /\ flight.brand.tone # ""
  /\ \E e \in {ensureSessionId(mem, flight.session, flight.bundle, nextId,
                                now)} :
        /\ e.started => nextId <= MaxIds /\ now < MaxClock
        /\ mem' = e.mem
        /\ dirty' = e.changed
        /\ effectsPending' = e.started
        /\ nextId' = e.nextId
        /\ now' = IF e.started THEN now + 1 ELSE now
        /\ activeArchiveId' = IF e.started THEN EmptyId ELSE activeArchiveId
        /\ archiveSyncRef' = IF e.started THEN Null ELSE archiveSyncRef
        /\ calls' = [calls EXCEPT
                       !.ids = Append(@, e.id),
                       !.starts = IF e.started THEN @ + 1 ELSE @]
        /\ flight' = [kind |-> "save2", brand |-> flight.brand]
  /\ UNCHANGED <<phase, appVersion, storeMode, store, showWelcome, boot>>
  /\ UNCHANGED nvars

(* saveBrand's validation fails (no archetype or no tone): it alerts and  *)
(* throws, handleSave catches, nothing is set                             *)
SettingsSaveRejected ==
  /\ Idle
  /\ flight.kind = "save1"
  /\ flight.brand.archetype = "" \/ flight.brand.tone = ""
  /\ flight' = NoFlight
  /\ calls' = NoCalls
  /\ UNCHANGED <<phase, appVersion, storeMode, store, mem, activeArchiveId,
                 archiveSyncRef, dirty, effectsPending, showWelcome, nextId,
                 now, boot>>
  /\ UNCHANGED nvars

(* saveBrand after brand_profile settled: the brand lock is set when the  *)
(* request succeeded or the user chose to proceed, and handleSaveSettings *)
(* then stores the brand; otherwise saveBrand throws and nothing is set   *)
SettingsSaveFinish(saved) ==
  /\ Idle
  /\ flight.kind = "save2"
  /\ mem' = IF saved
            THEN [mem EXCEPT !.locks = [@ EXCEPT !.brand = TRUE],
                             !.brand = flight.brand]
            ELSE mem
  /\ dirty' = IF saved THEN {"locks", "brand"} ELSE {}
  /\ effectsPending' = saved
  /\ flight' = NoFlight
  /\ calls' = NoCalls
  /\ UNCHANGED <<phase, appVersion, storeMode, store, activeArchiveId,
                 archiveSyncRef, showWelcome, nextId, now, boot>>
  /\ UNCHANGED nvars

(* resetSettings's removal of the settings keys *)
resetSettingsStore(st, mode) ==
  IF mode = "denied" THEN st
  ELSE [k \in StorageKeys |->
          IF k \in SETTINGS_STORAGE_KEYS THEN Absent ELSE st[k]]

(* A settings reset that also empties the topic list *)
resetSettingsMemDroppingTopics(m) ==
  [m EXCEPT !.brand = createDefaultBrand,
            !.contentPreferences = createDefaultContentPreferences,
            !.locks = [@ EXCEPT !.brand = FALSE],
            !.topics = <<>>]

(* resetSettings's state updates *)
resetSettingsMem(m) ==
  [m EXCEPT !.brand = createDefaultBrand,
            !.contentPreferences = createDefaultContentPreferences,
            !.locks = [@ EXCEPT !.brand = FALSE]]

resetSettings ==
  /\ Idle
  /\ mem' = resetSettingsMem(mem)
  /\ store' = resetSettingsStore(store, storeMode)
  /\ dirty' = {"brand", "contentPreferences", "locks"}
  /\ effectsPending' = TRUE
  /\ calls' = Disturbed(calls)
  /\ UNCHANGED <<phase, appVersion, storeMode, activeArchiveId,
                 archiveSyncRef, showWelcome, nextId, now, boot, flight>>
  /\ UNCHANGED nvars

-----------------------------------------------------------------------------
(* Archive restore and delete                                             *)

(* Position of the first archive entry with the given id, 0 when none    *)
entryIndex(list, entryId) ==
  IF \E i \in 1..Len(list) : list[i].id = entryId
  THEN CHOOSE i \in 1..Len(list) :
         list[i].id = entryId /\ \A j \in 1..(i - 1) : list[j].id # entryId
  ELSE 0

(* A restore that leaves the snapshot cell as it is *)
restoredMemKeepingSnapshot(m, entry) ==
  [m EXCEPT !.session = [id |-> entry.sessionId,
                         startedAt |-> entry.startedAt],
            !.brand = entry.data.brand,
            !.contentPreferences = entry.data.contentPreferences,
            !.topics = entry.data.topics,
            !.snapshotChatMessages = entry.data.snapshotChatMessages,
            !.article = entry.data.article,
            !.podcast = entry.data.podcast,
            !.social = entry.data.social,
            !.refdata = entry.data.refdata,
            !.n8n = entry.data.n8n,
            !.locks = entry.data.locks]

(* handleRestoreArchive's state updates for a found entry; every field   *)
(* of an entry's data is an object or an array, so no `||` default       *)
(* applies                                                                *)
restoredMem(m, entry) ==
  [m EXCEPT !.session = [id |-> entry.sessionId,
                         startedAt |-> entry.startedAt],
            !.brand = entry.data.brand,
            !.contentPreferences = entry.data.contentPreferences,
            !.topics = entry.data.topics,
            !.snapshot = finalizeSnapshot(entry.data.snapshot),
            !.snapshotChatMessages = entry.data.snapshotChatMessages,
            !.article = entry.data.article,
            !.podcast = entry.data.podcast,
            !.social = entry.data.social,
            !.refdata = entry.data.refdata,
            !.n8n = entry.data.n8n,
            !.locks = entry.data.locks]

(* A restore that makes the entry active without re-seeding the session *)
restoreArchiveKeepingSession(m, active, ref, entryId) ==
  IF entryIndex(m.archives, entryId) = 0
  THEN [mem |-> m, active |-> active, ref |-> ref, found |-> FALSE]
  ELSE [mem |-> [restoredMem(m, m.archives[entryIndex(m.archives, entryId)])
                   EXCEPT !.session = m.session],
        active |-> entryId, ref |-> Null, found |-> TRUE]

(* handleRestoreArchive(entryId) in a render whose cells are m: it        *)
(* returns at once when no entry has the id                               *)
restoreArchive(m, active, ref, entryId) ==
  IF entryIndex(m.archives, entryId) = 0
  THEN [mem |-> m, active |-> active, ref |-> ref, found |-> FALSE]
  ELSE [mem |-> restoredMem(m, m.archives[entryIndex(m.archives, entryId)]),
        active |-> entryId, ref |-> Null, found |-> TRUE]

handleRestoreArchive(entryId) ==
  /\ Idle
  /\ \E r \in {restoreArchive(mem, activeArchiveId, archiveSyncRef,
                               entryId)} :
       /\ mem' = r.mem
       /\ activeArchiveId' = r.active
       /\ archiveSyncRef' = r.ref
       /\ dirty' = IF r.found THEN Cells \ {"archives"} ELSE {}
       /\ effectsPending' = r.found
       /\ showWelcome' = IF r.found THEN FALSE ELSE showWelcome
  /\ calls' = Disturbed(calls)
  /\ UNCHANGED <<phase, appVersion, storeMode, store, nextId, now, boot,
                 flight>>
  /\ UNCHANGED nvars

(* A delete that leaves the active designation and the held reference   *)
deleteArchiveKeepingActive(archives, active, ref, entryId) ==
  [archives |-> SelectSeq(archives, LAMBDA entry : entry.id # entryId),
   active |-> active,
   ref |-> ref]

(* handleDeleteArchive(entryId) in a render with activeArchiveId active   *)
deleteArchive(archives, active, ref, entryId) ==
  [archives |-> SelectSeq(archives, LAMBDA entry : entry.id # entryId),
   active |-> IF active = entryId THEN EmptyId ELSE active,
   ref |-> IF active = entryId THEN Null ELSE ref]

handleDeleteArchive(entryId) ==
  /\ Idle
  /\ \E d \in {deleteArchive(mem.archives, activeArchiveId, archiveSyncRef,
                             entryId)} :
       /\ mem' = [mem EXCEPT !.archives = d.archives]
       /\ activeArchiveId' = d.active
       /\ archiveSyncRef' = d.ref
  /\ dirty' = {"archives"}
  /\ effectsPending' = TRUE
  /\ calls' = Disturbed(calls)
  /\ UNCHANGED <<phase, appVersion, storeMode, store, showWelcome, nextId,
                 now, boot, flight>>
  /\ UNCHANGED nvars

-----------------------------------------------------------------------------
(* Inputs and the next-state relation                                     *)

TopicInputs == {<<>>, <<"a">>, <<" ", "b", " ">>}
SectionInputs == {<<>>, <<"x">>}
EditedSectionIds == {"problem"}
BrandDrafts == {createDefaultBrand, BrandBold}

(* One page life over a working store: session lifecycle, topics,        *)
(* snapshot editing, archive restore and delete, continuous sync          *)
Next ==
  \/ VersionGuard
  \/ Mount
  \/ RunEffects
  \/ WelcomeStart
  \/ KeepExploring
  \/ StartFresh
  \/ \E tempTopic \in TopicInputs, editing \in 0..1 :
       TopicsNextBegin(tempTopic, editing)
  \/ TopicsNextContinue
  \/ \E i \in 1..2 : removeTopic(i)
  \/ \E id \in EditedSectionIds, value \in SectionInputs :
       handleSectionChange(id, value)
  \/ \E entryId \in 1..MaxIds : handleRestoreArchive(entryId)
  \/ \E entryId \in 1..MaxIds : handleDeleteArchive(entryId)

(* One page life over a working store: session lifecycle, topics and the  *)
(* settings page                                                          *)
SettingsNext ==
  \/ VersionGuard
  \/ Mount
  \/ RunEffects
  \/ WelcomeStart
  \/ KeepExploring
  \/ StartFresh
  \/ \E tempTopic \in TopicInputs, editing \in 0..1 :
       TopicsNextBegin(tempTopic, editing)
  \/ TopicsNextContinue
  \/ \E draftBrand \in BrandDrafts : SettingsSaveBegin(draftBrand)
  \/ SettingsSaveBrand
  \/ SettingsSaveRejected
  \/ \E saved \in BOOLEAN : SettingsSaveFinish(saved)
  \/ resetSettings

(* Page loads over a store that persists between them: builds are        *)
(* deployed, the store may refuse writes or all access                    *)
BootNext ==
  \/ VersionGuard
  \/ Reload
  \/ Mount
  \/ \E version \in APP_VERSIONS, mode \in StoreModes : Close(version, mode)
  \/ RunEffects
  \/ WelcomeStart
  \/ KeepExploring
  \/ StartFresh
  \/ \E tempTopic \in TopicInputs, editing \in 0..1 :
       TopicsNextBegin(tempTopic, editing)
  \/ TopicsNextContinue
  \/ \E draftBrand \in BrandDrafts : SettingsSaveBegin(draftBrand)
  \/ SettingsSaveBrand
  \/ SettingsSaveRejected
  \/ \E saved \in BOOLEAN : SettingsSaveFinish(saved)

-----------------------------------------------------------------------------
(* The normaliser applied to bounded raw snapshot documents               *)

RawIds == {"problem", "oneLiner", "bogus"}

RawSectionPool ==
  {[id |-> i, content |-> c] : i \in RawIds, c \in {Str(<<>>), Str(<<"x">>)}}
  \cup {[id |-> "model", content |-> Other],
        [id |-> "oneLiner", content |-> Str(<<" ">>)]}

RECURSIVE SeqsUpTo(_, _)
SeqsUpTo(S, n) ==
  IF n = 0 THEN {<<>>}
  ELSE LET shorter == SeqsUpTo(S, n - 1)
       IN shorter \cup {Append(q, e) : q \in shorter, e \in S}

RawSnapshots ==
  {NullValue} \cup
  {[sections |-> sec, aiDraft |-> d, text |-> t, generatedHtml |-> Undef] :
     sec \in {Other} \cup {[list |-> q] : q \in SeqsUpTo(RawSectionPool, MaxRawLen)},
     d \in {Undef, Str(<<"a">>)},
     t \in {Undef, Str(<<"t">>)}}

DropIds == {"problem", "metaphor", "oneLiner"}

NoDrop == [source |-> "", target |-> ""]

NormIdle ==
  /\ nstage = "off"
  /\ nraw = NullValue
  /\ nsnap = NullValue
  /\ nprev = NullValue
  /\ ndrop = NoDrop

MainIdle ==
  /\ phase = "off"
  /\ appVersion = "1.9.8"
  /\ storeMode = "ok"
  /\ store = [k \in StorageKeys |-> Absent]
  /\ mem = CellInit
  /\ activeArchiveId = EmptyId
  /\ archiveSyncRef = Null
  /\ dirty = {}
  /\ effectsPending = FALSE
  /\ showWelcome = FALSE
  /\ nextId = 1
  /\ now = 1
  /\ boot = NoBoot
  /\ flight = NoFlight
  /\ calls = NoCalls

NormInit ==
  /\ MainIdle
  /\ nstage = "raw"
  /\ nraw \in RawSnapshots
  /\ nsnap = NullValue
  /\ nprev = NullValue
  /\ ndrop = NoDrop

(* useLocal("contentos.snapshot") hands the stored document to            *)
(* finalizeSnapshot (the snapshot memo)                                   *)
NormLoad ==
  /\ nstage = "raw"
  /\ IF normalizeSnapshotThrows(nraw)
     THEN nsnap' = nsnap /\ nstage' = "threw"
     ELSE nsnap' = finalizeSnapshot(nraw) /\ nstage' = "held"
  /\ UNCHANGED <<nraw, nprev, ndrop>>
  /\ UNCHANGED mainvars

(* SnapshotPage.handleDrop through setSnapshot *)
NormDrop(sourceId, targetId) ==
  /\ nstage = "held"
  /\ nprev' = nsnap
  /\ ndrop' = [source |-> sourceId, target |-> targetId]
  /\ nsnap' = IF sourceId = targetId THEN nsnap
              ELSE setSnapshot(
                     handleDropUpdater(setSnapshotBase(nsnap), sourceId,
                                       targetId))
  /\ nstage' = "dropped"
  /\ UNCHANGED nraw
  /\ UNCHANGED mainvars

NormNext ==
  \/ NormLoad
  \/ \E sourceId \in DropIds, targetId \in DropIds :
       NormDrop(sourceId, targetId)

vars == <<mainvars, nvars>>

Init == MainInit /\ NormIdle

Spec == Init /\ [][Next]_vars

SpecSettings == Init /\ [][SettingsNext]_vars

SpecBoot == Init /\ [][BootNext]_vars

SpecNorm == NormInit /\ [][NormNext]_vars

(* The normaliser applied to malformed stored documents: not an object,   *)
(* sections not a list, elements that are null or not objects             *)
MalformedPool ==
  {NullValue, Other, [id |-> "problem", content |-> Str(<<"x">>)],
   [id |-> "model", content |-> Other]}

MalformedSnapshots ==
  {NullValue, Other} \cup
  {[sections |-> sec, aiDraft |-> Undef, text |-> t,
    generatedHtml |-> Undef] :
     sec \in {Other} \cup
             {[list |-> q] : q \in SeqsUpTo(MalformedPool, MaxRawLen - 1)},
     t \in {Undef, Str(<<"t">>)}}

MalformedInit ==
  /\ MainIdle
  /\ nstage = "raw"
  /\ nraw \in MalformedSnapshots
  /\ nsnap = NullValue
  /\ nprev = NullValue
  /\ ndrop = NoDrop

SpecMalformed == MalformedInit /\ [][NormNext]_vars

-----------------------------------------------------------------------------
(* A page life over a store left by an earlier page life in which the     *)
(* topics page still accepted several topics                              *)

TopicA == [name |-> <<"a">>]
TopicB == [name |-> <<"b">>]
LegacyTopicLists ==
  {<<>>, <<TopicA>>, <<TopicA, TopicB>>, <<TopicB, TopicA>>}

(* The session and the archive entry the earlier page life left *)
LegacySession == [id |-> 2, startedAt |-> 1]
LegacyEntry ==
  [id |-> 1, sessionId |-> LegacySession.id,
   startedAt |-> LegacySession.startedAt, savedAt |-> 1,
   title |-> titleOf(<<TopicB, TopicA>>),
   data |-> [Bundle(CellInit) EXCEPT !.topics = <<TopicB, TopicA>>]]

LegacyStores ==
  {[k \in StorageKeys |->
      IF k = VERSION_STORAGE_KEY THEN Plain("1.9.8")
      ELSE IF k = "contentos.topics" THEN Serialize(topicList)
      ELSE IF k = TOPIC_ARCHIVE_STORAGE_KEY THEN Serialize(archiveList)
      ELSE IF k = "contentos.session" THEN Serialize(sess)
      ELSE Absent] :
     topicList \in LegacyTopicLists,
     archiveList \in {<<>>, <<LegacyEntry>>},
     sess \in {CellInit.session, LegacySession}}

LegacyInit ==
  /\ phase = "load"
  /\ appVersion = "1.9.8"
  /\ storeMode = "ok"
  /\ store \in LegacyStores
  /\ mem = CellInit
  /\ activeArchiveId = EmptyId
  /\ archiveSyncRef = Null
  /\ dirty = {}
  /\ effectsPending = FALSE
  /\ showWelcome = FALSE
  /\ nextId = 3
  /\ now = 2
  /\ boot = NoBoot
  /\ flight = NoFlight
  /\ calls = NoCalls
  /\ NormIdle

LegacyNext ==
  \/ VersionGuard
  \/ Mount
  \/ RunEffects
  \/ WelcomeStart
  \/ KeepExploring
  \/ \E tempTopic \in TopicInputs, editing \in 0..1 :
       TopicsNextBegin(tempTopic, editing)
  \/ TopicsNextContinue
  \/ \E i \in 1..2 : removeTopic(i)
  \/ \E entryId \in 1..MaxIds : handleRestoreArchive(entryId)

SpecLegacy == LegacyInit /\ [][LegacyNext]_vars

-----------------------------------------------------------------------------
(* One page life with snapshot generation requests in flight while the    *)
(* session is reset, replaced or restored                                 *)

SnapshotResponses == {<<>>, <<" ", "d">>, <<Quote, "e", Quote>>}

SnapshotNext ==
  \/ VersionGuard
  \/ Mount
  \/ RunEffects
  \/ WelcomeStart
  \/ StartFresh
  \/ \E tempTopic \in {<<"a">>} : TopicsNextBegin(tempTopic, 0)
  \/ TopicsNextContinue
  \/ \E id \in EditedSectionIds, value \in SectionInputs :
       handleSectionChange(id, value)
  \/ \E entryId \in 1..MaxIds : handleRestoreArchive(entryId)
  \/ requestSnapshotBegin
  \/ \E rawText \in SnapshotResponses : requestSnapshotArrive(rawText)
  \/ requestSnapshotFail

SpecSnapshot == Init /\ [][SnapshotNext]_vars

IdsOf(list) == [i \in 1..Len(list) |-> list[i].id]

(* C6: normalising a normalised snapshot leaves its sections as they are *)
NormalizeIdempotentOnSections ==
  normalizeSnapshot(normalizeSnapshot(nraw)).sections
    = normalizeSnapshot(nraw).sections

NormalizeIdempotentWitness ==
  /\ nstage = "held"
  /\ nraw # NullValue
  /\ IsList(nraw.sections)
  /\ \E i, j \in 1..Len(nraw.sections.list) :
       /\ i < j
       /\ nraw.sections.list[i].id = nraw.sections.list[j].id
       /\ nraw.sections.list[i].id \in CanonicalIds
       /\ nraw.sections.list[i].content # nraw.sections.list[j].content
  /\ \E i \in 1..Len(nraw.sections.list) : nraw.sections.list[i].id = "bogus"

(* C7: the normalised sections hold each of the six canonical ids exactly *)
(* once and no other id                                                   *)
ExactlySixCanonicalSections ==
  LET list == normalizeSnapshot(nraw).sections.list
  IN /\ Len(list) = NumDefs
     /\ {list[i].id : i \in 1..Len(list)} = CanonicalIds

(* C8: a drop moves the source section to the target's position, keeps    *)
(* the other sections in order and every content as it was, and the       *)
(* finalised result has that order; ids missing from the raw list follow  *)
(* the present ones in definition order                                   *)
ReorderPreserved ==
  /\ nstage = "dropped" /\ ndrop.source # ndrop.target =>
       LET old == nprev.sections.list
           new == nsnap.sections.list
           f == findIndex(old, ndrop.source)
           t == findIndex(old, ndrop.target)
       IN /\ Len(new) = Len(old)
          /\ new[t] = old[f]
          /\ RemoveAt(new, t) = RemoveAt(old, f)
          /\ finalizeSnapshot(nsnap).sections = nsnap.sections
  /\ nstage = "held" =>
       LET raw == IF nraw = NullValue THEN <<>> ELSE rawSectionsOf(nraw)
           out == nsnap.sections.list
       IN /\ SubSeq(IdsOf(out), 1, Len(raw)) = IdsOf(raw)
          /\ \A i, j \in (Len(raw) + 1)..Len(out) :
               i < j => findIndex(SNAPSHOT_SECTION_DEFINITIONS, out[i].id)
                          < findIndex(SNAPSHOT_SECTION_DEFINITIONS, out[j].id)
          /\ \A i \in (Len(raw) + 1)..Len(out) :
               /\ out[i].id \in CanonicalIds
               /\ \A k \in 1..Len(raw) : raw[k].id # out[i].id

ReorderPreservedWitness ==
  /\ nstage = "dropped"
  /\ nraw # NullValue
  /\ rawSectionsOf(nraw) # <<>>
  /\ findIndex(nprev.sections.list, ndrop.source)
       > findIndex(nprev.sections.list, ndrop.target) + 1
  /\ nsnap.sections # nprev.sections
  /\ \E i \in 1..Len(nsnap.sections.list) :
       nsnap.sections.list[i].content = Str(<<"x">>)

-----------------------------------------------------------------------------
(* The archive upsert                                                     *)

(* The bundles an upsert can be handed: the render's own and the data of  *)
(* the archived entries                                                   *)
UpsertBundles ==
  {Bundle(mem)} \cup {mem.archives[i].data : i \in 1..Len(mem.archives)}

EntryIds == 0..(MaxIds + 1)

(* The positions of list an upsert for entryId / sessionId looks at *)
Matching(list, entryId, sessionId) ==
  {i \in 1..Len(list) :
     IF entryId # EmptyId THEN list[i].id = entryId
     ELSE list[i].sessionId = sessionId}

(* C1: with a session id and a bundle that names a topic, a second        *)
(* upsert of the same bundle under the same session / entry id, made      *)
(* later and with a later uuid at hand, leaves the archive list the       *)
(* first one produced, with one entry for it and the same savedAt         *)
IdempotentUpsert ==
  phase = "run" /\ mem.session.id # EmptyId =>
    \A B \in UpsertBundles, entryId \in EntryIds :
      hasTopic(B.topics) =>
        LET first == persistSessionToArchive(mem.archives, mem.session, B,
                                             entryId, nextId, now).upd
            second == persistSessionToArchive(first.archives, mem.session, B,
                                              entryId, nextId + 1, now + 1).upd
        IN /\ second.archives = first.archives
           /\ ~second.changed
           /\ second.ret.savedAt = first.ret.savedAt
           /\ Cardinality(Matching(second.archives, entryId,
                                   mem.session.id)) = 1

(* The session has an archived entry whose data is no longer the bundle:  *)
(* the first upsert rewrites it, the second finds it byte-equal           *)
IdempotentUpsertWitness ==
  /\ phase = "run"
  /\ mem.session.id # EmptyId
  /\ hasTopic(mem.topics)
  /\ Len(mem.archives) > 1
  /\ \E i \in 1..Len(mem.archives) :
       /\ mem.archives[i].sessionId = mem.session.id
       /\ mem.archives[i].data # Bundle(mem)
       /\ mem.archives[i].savedAt < now

TopiclessLists == {<<>>, <<[name |-> <<>>]>>, <<[name |-> <<" ">>]>>}

ArchivedSessions ==
  {CellInit.session, mem.session}
    \cup {[id |-> mem.archives[i].sessionId,
           startedAt |-> mem.archives[i].startedAt] :
            i \in 1..Len(mem.archives)}

(* C2: an upsert of a bundle none of whose topics has a name after        *)
(* trimming returns null and leaves the archive list as it is, for every  *)
(* session, entry id and archive content                                  *)
TopiclessUpsertRefused ==
  phase = "run" =>
    \A B \in {[Bundle(mem) EXCEPT !.topics = topicList] :
                topicList \in TopiclessLists},
       sess \in ArchivedSessions, entryId \in EntryIds :
      \E p \in {persistSessionToArchive(mem.archives, sess, B, entryId,
                                        nextId, now)} :
        /\ p.upd.ret = Null
        /\ p.upd.archives = mem.archives
        /\ ~p.upd.changed
        /\ ~p.usedUuid

(* The session's entry is archived and active, and its topic was removed *)
TopiclessUpsertWitness ==
  /\ phase = "run"
  /\ mem.session.id # EmptyId
  /\ mem.topics = <<>>
  /\ activeArchiveId # EmptyId
  /\ \E i \in 1..Len(mem.archives) :
       /\ mem.archives[i].id = activeArchiveId
       /\ mem.archives[i].sessionId = mem.session.id
       /\ mem.archives[i].data # Bundle(mem)

-----------------------------------------------------------------------------
(* The version guard                                                      *)

(* The guard of the last page load has run and the app is not mounted yet *)
GuardDone == phase \in {"reload", "mount"}

(* The last page load found a non-empty marker of another build *)
MarkerMismatch ==
  /\ boot.stored # Absent
  /\ boot.stored # Plain("")
  /\ boot.stored # Plain(boot.version)

SessionScopedKeys ==
  {"contentos.session", "contentos.locks", "contentos.refdata",
   "contentos.topics", "contentos.snapshot", "contentos.snapshot.chat",
   "contentos.article", "contentos.podcast", "contentos.social.design",
   "contentos.n8n", "contentos.topics.archive"}

SettingsScopedKeys == {"contentos.brand", "contentos.contentTypes"}

VersionChangeRemovesAll ==
  GuardDone /\ boot.stored # Plain(boot.version) /\ boot.mode = "ok" =>
    \A k \in StorageKeys :
      (startsWithContentos(k) /\ k # VERSION_STORAGE_KEY
         /\ boot.pre[k] # Absent)
        => store[k] # boot.pre[k]

-----------------------------------------------------------------------------
(* Session creation                                                       *)

(* C5: the two ensureSessionId calls of one settings save that began      *)
(* without a session, nothing else having run in between, return the same *)
(* id and start one session                                               *)
EnsureSessionIdStable ==
  (Len(calls.ids) = 2 /\ calls.fromEmpty /\ calls.clean) =>
    /\ calls.ids[1] = calls.ids[2]
    /\ calls.starts = 1

(* A startNewSession call is the only step that draws a uuid while a     *)
(* session exists                                                         *)
StartsFromSession ==
  /\ phase = "run"
  /\ mem.session.id # EmptyId
  /\ nextId' # nextId

-----------------------------------------------------------------------------
(* Restore and continuous sync                                            *)

(* handleRestoreArchive has run and the effects of its render have not:   *)
(* only there is an archive active while the sync reference is null       *)
Restored == activeArchiveId # EmptyId /\ archiveSyncRef = Null

-----------------------------------------------------------------------------
(* Resets                                                                 *)

(* C11: resetSession leaves the brand and the content preferences as      *)
(* they are, in memory and in the store, and every cell it sets holds the *)
(* value it has on a first run                                            *)
ResetSessionRestoresDefaults ==
  phase = "run" =>
    /\ resetSessionMem(mem).brand = mem.brand
    /\ resetSessionMem(mem).contentPreferences = mem.contentPreferences
    /\ \A k \in SETTINGS_STORAGE_KEYS :
         resetSessionStore(store, storeMode)[k] = store[k]
    /\ \A c \in ResetSessionCells : resetSessionMem(mem)[c] = CellInit[c]

(* C12: resetSession leaves the archive entries as they are, in memory    *)
(* and under the archive key of the store                                 *)
ResetSessionKeepsArchive ==
  (phase = "run" /\ mem.archives # <<>>) =>
    /\ resetSessionMem(mem).archives = mem.archives
    /\ resetSessionStore(store, storeMode)[TOPIC_ARCHIVE_STORAGE_KEY]
         = store[TOPIC_ARCHIVE_STORAGE_KEY]

(* The cells resetSettings is to leave alone *)
SessionCells == ResetSessionCells \cup {"archives"}

SettingsKeysRemoved ==
  store["contentos.brand"] # Absent /\ store'["contentos.brand"] = Absent

-----------------------------------------------------------------------------
(* Write-through                                                          *)

(* C14: over a store that accepts writes, once the pending effects have   *)
(* run, the store entry of every persisted cell is the serialisation of   *)
(* the cell's value                                                       *)
WriteThrough ==
  (Idle /\ storeMode = "ok") =>
    \A c \in Cells : store[CellKey[c]] = Serialize(mem[c])

-----------------------------------------------------------------------------
(* The version guard's reload                                             *)

(* The store a page load can find, with the marker as it is or empty *)
MarkerVariants == {store, [store EXCEPT ![VERSION_STORAGE_KEY] = Plain("")]}

(* C15: over a working store, the guard reloads exactly when the marker   *)
(* it found was non-empty and not the running version; an equal marker    *)
(* leaves the store as it is; an absent or empty one has the session keys *)
(* cleared and the marker written, without a reload                       *)
GuardReloadsOnUpgradeOnly ==
  /\ (GuardDone /\ boot.mode = "ok") =>
       /\ phase = "reload" <=> MarkerMismatch
       /\ boot.stored = Plain(boot.version) => store = boot.pre
       /\ boot.stored \in {Absent, Plain("")} =>
            /\ \A k \in SessionScopedKeys : store[k] = Absent
            /\ \A k \in SettingsScopedKeys : store[k] = boot.pre[k]
            /\ store[VERSION_STORAGE_KEY] = Plain(boot.version)
  /\ phase = "load" =>
       \A st \in MarkerVariants :
         /\ versionGuardReloads(st, "ok", appVersion)
              <=> st[VERSION_STORAGE_KEY]
                    \notin {Absent, Plain(""), Plain(appVersion)}
         /\ st[VERSION_STORAGE_KEY] = Plain(appVersion) =>
              versionGuardStore(st, "ok", appVersion) = st
         /\ st[VERSION_STORAGE_KEY] \in {Absent, Plain("")} =>
              /\ \A k \in SessionScopedKeys :
                   versionGuardStore(st, "ok", appVersion)[k] = Absent
              /\ versionGuardStore(st, "ok", appVersion)[VERSION_STORAGE_KEY]
                   = Plain(appVersion)

(* A page load found no marker over a stored session and did not reload *)
GuardFirstRunWitness ==
  /\ phase = "mount"
  /\ boot.mode = "ok"
  /\ boot.stored = Absent
  /\ boot.pre["contentos.session"] # Absent
  /\ boot.pre["contentos.session"] # Serialize(CellInit.session)
  /\ store["contentos.session"] = Absent
  /\ store[VERSION_STORAGE_KEY] = Plain(appVersion)

-----------------------------------------------------------------------------
(* The archive upsert: update and create                                  *)

(* The sessions an upsert can be called under *)
CallerSessions == {sess \in ArchivedSessions : sess.id # EmptyId}

(* C16: an upsert that finds an entry and a different bundle or title     *)
(* replaces its data, title and savedAt, keeps its id, sessionId and      *)
(* startedAt whatever the caller's session, and keeps every entry's       *)
(* position                                                               *)
UpsertUpdateKeepsIdentity ==
  phase = "run" =>
    \A B \in UpsertBundles, sess \in CallerSessions, entryId \in EntryIds :
      (hasTopic(B.topics) /\ Matching(mem.archives, entryId, sess.id) # {}) =>
        \E i \in {archiveIndex(mem.archives, entryId, sess.id)},
           p \in {persistSessionToArchive(mem.archives, sess, B, entryId,
                                          nextId, now).upd} :
          p.changed =>
            /\ Len(p.archives) = Len(mem.archives)
            /\ \A j \in 1..Len(mem.archives) :
                 j # i => p.archives[j] = mem.archives[j]
            /\ p.archives[i].data = B
            /\ p.archives[i].title = titleOf(B.topics)
            /\ p.archives[i].savedAt = now
            /\ p.archives[i].id = mem.archives[i].id
            /\ p.archives[i].sessionId = mem.archives[i].sessionId
            /\ p.archives[i].startedAt = mem.archives[i].startedAt

(* C17: an upsert that finds no entry puts one new entry first, leaves    *)
(* the others as they are, and gives the new entry an id that is neither  *)
(* in the archive nor the supplied entry id, the session's id and start   *)
(* time, and the bundle                                                   *)
UpsertCreatesFreshEntry ==
  phase = "run" =>
    \A B \in UpsertBundles, sess \in CallerSessions, entryId \in EntryIds :
      (hasTopic(B.topics) /\ Matching(mem.archives, entryId, sess.id) = {}) =>
        \E p \in {persistSessionToArchive(mem.archives, sess, B, entryId,
                                          nextId, now).upd} :
          /\ Len(p.archives) = Len(mem.archives) + 1
          /\ Tail(p.archives) = mem.archives
          /\ p.ret = Head(p.archives)
          /\ \A j \in 1..Len(mem.archives) :
               mem.archives[j].id # Head(p.archives).id
          /\ Head(p.archives).id # entryId
          /\ Head(p.archives).sessionId = sess.id
          /\ Head(p.archives).startedAt = sess.startedAt
          /\ Head(p.archives).data = B

-----------------------------------------------------------------------------
(* Restore                                                                *)

(* The entry a restore step made active *)
RestoredEntry == mem.archives[entryIndex(mem.archives, activeArchiveId')]

(* C18: a restore of an entry sets the session to the entry's session id  *)
(* and start time, makes the entry active, sets the cells so that the     *)
(* bundle is the entry's data with its snapshot finalised, and leaves the *)
(* archive list as it is; a restore of an id no entry has changes nothing *)
RestoreReseedsSession ==
  /\ [][Restored' =>
          /\ entryIndex(mem.archives, activeArchiveId') # 0
          /\ mem'.session = [id |-> RestoredEntry.sessionId,
                             startedAt |-> RestoredEntry.startedAt]
          /\ Bundle(mem') = [RestoredEntry.data EXCEPT
                               !.snapshot = finalizeSnapshot(@)]
          /\ mem'.snapshot = finalizeSnapshot(RestoredEntry.data.snapshot)
          /\ mem'.archives = mem.archives
          /\ store' = store
       ]_vars
  /\ [](phase = "run" =>
          \A entryId \in EntryIds :
            entryIndex(mem.archives, entryId) = 0 =>
              restoreArchive(mem, activeArchiveId, archiveSyncRef, entryId)
                = [mem |-> mem, active |-> activeArchiveId,
                   ref |-> archiveSyncRef, found |-> FALSE])

(* An older entry with an edited snapshot has been restored over a        *)
(* session of another id that did not have its topic                      *)
RestoreWitness ==
  /\ Restored
  /\ effectsPending
  /\ Len(mem.archives) > 1
  /\ \E i \in 2..Len(mem.archives) :
       /\ mem.archives[i].id = activeArchiveId
       /\ mem.session.id = mem.archives[i].sessionId
       /\ mem.session.id # mem.archives[1].sessionId
       /\ mem.topics = mem.archives[i].data.topics
       /\ mem.topics # mem.archives[1].data.topics
       /\ mem.snapshot # CellInit.snapshot
       /\ store["contentos.session"] # Serialize(mem.session)

-----------------------------------------------------------------------------
(* Delete                                                                 *)

(* The ids of the entries of an archive list *)
EntryIdsOf(list) == {list[i].id : i \in 1..Len(list)}

(* The archive list without the entries of an id *)
Without(list, entryId) == SelectSeq(list, LAMBDA entry : entry.id # entryId)

(* The step removed entries from the archive list *)
ArchiveShrinks == Len(mem'.archives) < Len(mem.archives)

(* C19: a delete removes exactly the entries of the id and keeps the rest *)
(* in order, and changes nothing in the list when no entry has the id; a  *)
(* delete of the active entry clears the active designation and the held  *)
(* reference; an id that left the list never comes back, because every    *)
(* entry a step adds has an id that was never handed out before           *)
DeleteRemovesExactly ==
  /\ [][ArchiveShrinks =>
          \E entryId \in EntryIdsOf(mem.archives) :
            /\ mem'.archives = Without(mem.archives, entryId)
            /\ (activeArchiveId = entryId =>
                  activeArchiveId' = EmptyId /\ archiveSyncRef' = Null)
            /\ (activeArchiveId # entryId =>
                  /\ activeArchiveId' = activeArchiveId
                  /\ archiveSyncRef' = archiveSyncRef)
       ]_vars
  /\ [](phase = "run" =>
          \A entryId \in EntryIds \ EntryIdsOf(mem.archives) :
            deleteArchive(mem.archives, activeArchiveId, archiveSyncRef,
                          entryId).archives = mem.archives)
  /\ [](\A id \in EntryIdsOf(mem.archives) \cup {activeArchiveId} :
          id < nextId)
  /\ [](activeArchiveId # EmptyId /\ Idle =>
          activeArchiveId \in EntryIdsOf(mem.archives))
  /\ [][/\ nextId' >= nextId
        /\ \A id \in EntryIdsOf(mem'.archives) \ EntryIdsOf(mem.archives) :
             id >= nextId
       ]_vars

(* The active entry of the running session has been deleted while another *)
(* entry stays: the stored list still has it, the list in memory does not *)
DeleteActiveWitness ==
  /\ phase = "run"
  /\ effectsPending
  /\ dirty = {"archives"}
  /\ activeArchiveId = EmptyId
  /\ archiveSyncRef = Null
  /\ mem.session.id # EmptyId
  /\ mem.topics # <<>>
  /\ Len(mem.archives) >= 1
  /\ \A i \in 1..Len(mem.archives) :
       mem.archives[i].sessionId # mem.session.id
  /\ "json" \in DOMAIN store[TOPIC_ARCHIVE_STORAGE_KEY]
  /\ \E list \in {store[TOPIC_ARCHIVE_STORAGE_KEY].json} :
       /\ Len(list) = Len(mem.archives) + 1
       /\ \E i \in 1..Len(list) :
            /\ list[i].sessionId = mem.session.id
            /\ mem.archives = Without(list, list[i].id)

-----------------------------------------------------------------------------
(* At most one topic                                                      *)

(* C20: at rest the topic list has at most one element: a list of several *)
(* topics, read from the store at mount or set by a restore, is cut to    *)
(* its first element by the effects of its render, and while the app runs *)
(* only a restore makes the list longer than one, the topics page adding  *)
(* a topic to an empty list only                                          *)
AtMostOneTopic ==
  /\ [](Idle => Len(mem.topics) <= 1)
  /\ [][(phase = "run" /\ Len(mem.topics) > 1) =>
          mem'.topics = <<mem.topics[1]>>]_vars
  /\ [][(phase = "run" /\ Len(mem'.topics) > Len(mem.topics)) =>
          \/ mem.topics = <<>> /\ Len(mem'.topics) = 1
          \/ Restored' /\ mem'.topics = RestoredEntry.data.topics
       ]_vars

(* A restore set two topics and the effects of its render cut the list to *)
(* the first: the store and the active entry still hold both              *)
TopicsTruncatedWitness ==
  /\ phase = "run"
  /\ effectsPending
  /\ "topics" \in dirty
  /\ activeArchiveId # EmptyId
  /\ store["contentos.topics"] = Serialize(<<TopicB, TopicA>>)
  /\ mem.topics = <<TopicB>>
  /\ \E i \in 1..Len(mem.archives) :
       /\ mem.archives[i].id = activeArchiveId
       /\ mem.archives[i].data.topics = <<TopicB, TopicA>>

-----------------------------------------------------------------------------
(* The snapshot text                                                      *)

(* Number of positions of text at which the sequence pat starts *)
Occurrences(text, pat) ==
  Cardinality({i \in 1..(Len(text) - Len(pat) + 1) :
                 SubSeq(text, i, i + Len(pat) - 1) = pat})

(* The sections of a finalised snapshot whose trimmed content is not empty *)
FilledSections(list) ==
  SelectSeq(list, LAMBDA section : Trim(section.content.str) # <<>>)

(* The block of one filled section: its escaped title as a heading, then  *)
(* its trimmed content as HTML                                            *)
TitledBlock(section) ==
  SectionOpen \o H3Open
  \o escapeHtml(SNAPSHOT_SECTION_DEFINITIONS[
       findIndex(SNAPSHOT_SECTION_DEFINITIONS, section.id)].title)
  \o H3Close \o ensureHtmlContent(Trim(section.content.str)) \o SectionClose

(* The raw documents a finalised document is compared with: every text   *)
(* and draft, over the section lists one shorter than the longest         *)
ComparedSnapshots ==
  {NullValue} \cup
  {[sections |-> sec, aiDraft |-> d, text |-> t, generatedHtml |-> Undef] :
     sec \in {Other} \cup
             {[list |-> q] : q \in SeqsUpTo(RawSectionPool, MaxRawLen - 1)},
     d \in {Undef, Str(<<"a">>)},
     t \in {Undef, Str(<<"t">>)}}

(* C21: the text of a finalised snapshot depends on its sections only:    *)
(* every raw document that finalises to the same sections finalises to    *)
(* the same text, whatever text or draft it carries; the text is the      *)
(* titled blocks of the sections with non-empty trimmed content, in       *)
(* section order, and holds nothing for the other sections                *)
TextIsFunctionOfSections ==
  nstage = "held" =>
    /\ \A other \in ComparedSnapshots :
         finalizeSnapshot(other).sections = nsnap.sections =>
           finalizeSnapshot(other).text = nsnap.text
    /\ \E filled \in {FilledSections(nsnap.sections.list)} :
         /\ nsnap.text.str =
              Flatten([i \in 1..Len(filled) |-> TitledBlock(filled[i])])
         /\ Occurrences(nsnap.text.str, SectionOpen) = Len(filled)
         /\ Occurrences(nsnap.text.str, H3Open) = Len(filled)

(* A stored document with a persisted text and a draft, a filled section  *)
(* after a blank one and an empty one, has been finalised                 *)
TextWitness ==
  /\ nstage = "held"
  /\ nraw # NullValue
  /\ nraw.text = Str(<<"t">>)
  /\ nraw.aiDraft = Str(<<"a">>)
  /\ IsList(nraw.sections)
  /\ Len(nraw.sections.list) = 3
  /\ nraw.sections.list[1] = [id |-> "oneLiner", content |-> Str(<<" ">>)]
  /\ nraw.sections.list[2].content = Str(<<>>)
  /\ nraw.sections.list[3] = [id |-> "problem", content |-> Str(<<"x">>)]
  /\ nsnap.text # Str(<<>>)
  /\ nsnap.text # nraw.text

-----------------------------------------------------------------------------
(* Storage failures                                                       *)

(* The step is "Yes, start fresh" over a session with a topic *)
StartsFresh ==
  /\ Idle
  /\ mem.topics # <<>>
  /\ mem'.topics = <<>>
  /\ nextId' # nextId

(* A store whose entry for a cell is absent, or is not JSON *)
WithEntry(st, cellName, raw) == [st EXCEPT ![CellKey[cellName]] = raw]

-----------------------------------------------------------------------------
(* The continuous sync                                                    *)

(* The step assigned a serialization to the held reference *)
RefArmed == archiveSyncRef' # archiveSyncRef /\ archiveSyncRef' # Null

(* The active entry of the next state holds the bundle of that            *)
(* serialization                                                          *)
RefPushed ==
  \E i \in 1..Len(mem'.archives) :
    /\ mem'.archives[i].id = activeArchiveId
    /\ Serialize(mem'.archives[i].data) = archiveSyncRef'

(* C23: the held reference is set after the upsert has written, and only  *)
(* to a serialization that was pushed: whenever a step assigns a          *)
(* serialization to the held reference, the active entry holds the bundle *)
(* of that serialization                                                  *)
RefArmedAfterWrite == [][RefArmed => RefPushed]_vars

(* The effects of a committed render run in this step *)
EffectsStep == phase = "run" /\ effectsPending /\ phase' = "run"

(* The sync effect of the render in the current state *)
SyncNow ==
  syncEffect(mem.archives, mem.session, Bundle(mem), activeArchiveId,
             archiveSyncRef, nextId, now)

(* C24: the sync effect calls the upsert only for an active entry and a   *)
(* bundle whose serialization differs from the held reference; an effects *)
(* step that changes the archive list does so for such a bundle, arms the *)
(* reference with it and leaves only the archive list's effects pending;  *)
(* with the reference equal to the bundle the effects leave the archive   *)
(* list and the reference alone; the render that only the archive list's  *)
(* change caused writes nothing and comes to rest, so one change of the   *)
(* bundle is followed by at most one write and at most two effects steps  *)
SyncLoopSafe ==
  /\ [](phase = "run" =>
          (SyncNow.called =>
             /\ activeArchiveId # EmptyId
             /\ archiveSyncRef # Serialize(Bundle(mem))))
  /\ [][(EffectsStep /\ mem'.archives # mem.archives) =>
          /\ activeArchiveId # EmptyId
          /\ archiveSyncRef # Serialize(Bundle(mem))
          /\ archiveSyncRef' = Serialize(Bundle(mem))
          /\ Bundle(mem') = Bundle(mem)
          /\ dirty # {"archives"}
          /\ dirty' = {"archives"}]_vars
  /\ [][(EffectsStep /\ archiveSyncRef = Serialize(Bundle(mem))) =>
          /\ mem'.archives = mem.archives
          /\ archiveSyncRef' = archiveSyncRef]_vars
  /\ [][(EffectsStep /\ dirty = {"archives"}) =>
          /\ mem' = mem
          /\ archiveSyncRef' = archiveSyncRef
          /\ ~effectsPending']_vars
  /\ [][(EffectsStep /\ mem'.archives = mem.archives) =>
          mem' = mem /\ ~effectsPending']_vars
  /\ [][effectsPending' => (EffectsStep \/ ~effectsPending)]_vars
  /\ [][(effectsPending /\ ~EffectsStep) => phase' # "run"]_vars

(* The render after the sync effect's own write: an edit of the active    *)
(* entry's bundle has been pushed, the reference holds it, and only the   *)
(* archive list's effects are pending                                     *)
SyncEchoWitness ==
  /\ phase = "run"
  /\ effectsPending
  /\ dirty = {"archives"}
  /\ activeArchiveId # EmptyId
  /\ archiveSyncRef = Serialize(Bundle(mem))
  /\ store[TOPIC_ARCHIVE_STORAGE_KEY] # Serialize(mem.archives)
  /\ \E i \in 1..Len(mem.archives) :
       /\ mem.archives[i].id = activeArchiveId
       /\ mem.archives[i].data = Bundle(mem)
       /\ mem.snapshot # CellInit.snapshot

-----------------------------------------------------------------------------
(* Snapshot generation responses                                          *)

(* The step applies the response of a snapshot generation request *)
ResponseApplied ==
  flight.kind = "snapshot" /\ flight' = NoFlight /\ effectsPending'

(* The draft requestSnapshot derives from a response text *)
DraftOf(rawText) ==
  IF Trim(extractSnapshotText(rawText)) = <<>> THEN <<>>
  ELSE ensureHtmlContent(Trim(extractSnapshotText(rawText)))

(* C25: the response of a snapshot generation request is applied to the   *)
(* snapshot that is current when it arrives, whatever session the request *)
(* was sent for: the step sets aiDraft to the response's draft, keeps the *)
(* current sections in content and order, and changes no other cell; the  *)
(* same holds for every response in every state with a request in flight, *)
(* the session of the request being the current one or not                *)
ResponseAppliedUnconditionally ==
  /\ [][ResponseApplied =>
          /\ \E rawText \in SnapshotResponses :
               mem'.snapshot.aiDraft = Str(DraftOf(rawText))
          /\ mem'.snapshot.sections = finalizeSnapshot(mem.snapshot).sections
          /\ \A c \in Cells \ {"snapshot"} : mem'[c] = mem[c]
          /\ activeArchiveId' = activeArchiveId
       ]_vars
  /\ []((Idle /\ flight.kind = "snapshot") =>
          \A rawText \in SnapshotResponses :
            \E arrived \in {snapshotArrived(mem, flight.sessionId, rawText)} :
              /\ arrived.snapshot.aiDraft = Str(DraftOf(rawText))
              /\ arrived.snapshot.sections
                   = finalizeSnapshot(mem.snapshot).sections
              /\ \A c \in Cells \ {"snapshot"} : arrived[c] = mem[c])

(* A response has been applied to the snapshot of a restored entry whose  *)
(* own snapshot has no draft: the edited section is kept, the draft is    *)
(* the response's                                                         *)
ResponseAppliedWitness ==
  /\ phase = "run"
  /\ effectsPending
  /\ dirty = {"snapshot"}
  /\ flight = NoFlight
  /\ mem.snapshot.aiDraft = Str(DraftOf(<<Quote, "e", Quote>>))
  /\ mem.snapshot.sections # CellInit.snapshot.sections
  /\ \E i \in 1..Len(mem.archives) :
       /\ mem.archives[i].id = activeArchiveId
       /\ mem.archives[i].sessionId = mem.session.id
       /\ mem.archives[i].data.snapshot.aiDraft = Str(<<>>)
       /\ mem.archives[i].data.snapshot.sections = mem.snapshot.sections

-----------------------------------------------------------------------------
(* Malformed stored documents                                             *)

(* C26: the normaliser returns a snapshot for every raw document and      *)
(* never throws, and a raw document that is null or not an object gives   *)
(* the canonical empty snapshot                                           *)
NormalizationTotal ==
  /\ nstage # "threw"
  /\ (nstage = "held" /\ nraw \in {NullValue, Other}) =>
       nsnap = finalizeSnapshot(createEmptySnapshotState)

-----------------------------------------------------------------------------
(* One entry per session                                                  *)

(* The session ids of the entries of an archive list *)
SessionIdsOf(list) == {list[i].sessionId : i \in 1..Len(list)}

(* C27: no two entries of the archive have the same session id; a step    *)
(* that adds an entry puts one entry of a session id none had in front of *)
(* the others, and a step that keeps the number of entries keeps the      *)
(* session id of the entry at every position                              *)
OneEntryPerSession ==
  /\ [](\A i, j \in 1..Len(mem.archives) :
          i # j => mem.archives[i].sessionId # mem.archives[j].sessionId)
  /\ [][Len(mem'.archives) > Len(mem.archives) =>
          /\ Tail(mem'.archives) = mem.archives
          /\ Head(mem'.archives).sessionId \notin SessionIdsOf(mem.archives)
          /\ Head(mem'.archives).sessionId = mem.session.id
       ]_vars
  /\ [][Len(mem'.archives) = Len(mem.archives) =>
          \A i \in 1..Len(mem.archives) :
            mem'.archives[i].sessionId = mem.archives[i].sessionId
       ]_vars

(* Two sessions are archived and the older entry, with an edited         *)
(* snapshot, has been restored: the sync effect went through the upsert   *)
(* for it and the archive still has the two entries                       *)
OneEntryPerSessionWitness ==
  /\ Idle
  /\ Len(mem.archives) = 2
  /\ activeArchiveId = mem.archives[2].id
  /\ mem.session.id = mem.archives[2].sessionId
  /\ mem.archives[2].data = Bundle(mem)
  /\ mem.archives[2].data.snapshot # CellInit.snapshot
  /\ archiveSyncRef = Serialize(Bundle(mem))

-----------------------------------------------------------------------------
(* resetSession and the version marker                                    *)

(* C28: over a working store resetSession removes the session keys of the *)
(* guard's list and leaves every other key as it is, the marker included: *)
(* while the app runs the marker is the running version, so the next load *)
(* of the same build finds it equal                                       *)
ResetSessionKeepsMarker ==
  /\ [][(StartsFresh /\ storeMode = "ok") =>
          /\ \A k \in SessionScopedKeys : store'[k] = Absent
          /\ \A k \in StorageKeys \ SessionScopedKeys : store'[k] = store[k]
       ]_vars
  /\ []((phase = "run" /\ storeMode = "ok") =>
          store[VERSION_STORAGE_KEY] = Plain(appVersion))

-----------------------------------------------------------------------------
(* "Yes, start fresh" and the archive                                     *)

(* The step is resetSession over a working store that holds a session *)
SessionKeysRemoved ==
  /\ Idle
  /\ store["contentos.session"] # Absent
  /\ store'["contentos.session"] = Absent

(* Position of the entry of the current session, 0 when none *)
OwnEntry == archiveIndex(mem.archives, EmptyId, mem.session.id)

-----------------------------------------------------------------------------
(* The version guard: no reload loop                                      *)

(* The page is loading again after the guard's window.location.reload():  *)
(* the last guard found another build's marker over a working store and   *)
(* no guard has run since                                                 *)
AfterForcedReload ==
  /\ phase = "load"
  /\ boot.mode = "ok"
  /\ MarkerMismatch

(* C30: the guard reloads only after it removed the session-scoped keys   *)
(* and stored the running version as the marker; the page load that       *)
(* follows a forced reload finds the marker equal, leaves the store as it *)
(* is and mounts; when setItem or getItem throws, the guard does not      *)
(* reload                                                                 *)
ForcedReloadOnce ==
  /\ [](phase = "reload" =>
          /\ boot.mode = "ok"
          /\ MarkerMismatch
          /\ store[VERSION_STORAGE_KEY] = Plain(appVersion)
          /\ \A k \in LOCAL_STORAGE_KEYS : store[k] = Absent
          /\ ~versionGuardReloads(store, storeMode, appVersion))
  /\ [][phase = "reload" =>
          /\ phase' = "load"
          /\ store' = store
          /\ appVersion' = appVersion
          /\ storeMode' = storeMode]_vars
  /\ [][AfterForcedReload =>
          /\ store[VERSION_STORAGE_KEY] = Plain(appVersion)
          /\ phase' = "mount"
          /\ store' = store]_vars
  /\ [][(phase = "load" /\ storeMode # "ok") => phase' = "mount"]_vars

(* A page of build 1.9.20 is loading again after the guard's reload: the  *)
(* guard found the marker of 1.9.8 over a stored session, removed the     *)
(* session and stored its own version                                     *)
ForcedReloadWitness ==
  /\ AfterForcedReload
  /\ appVersion = "1.9.20"
  /\ boot.stored = Plain("1.9.8")
  /\ boot.pre["contentos.session"] # Absent
  /\ store["contentos.session"] = Absent
  /\ store[VERSION_STORAGE_KEY] = Plain("1.9.20")

=============================================================================
